---------------------------- MODULE Spec2Model ----------------------------
(***************************************************************************)
(* Model of the FOURCAST trading-cycle orchestrator.                       *)
(*                                                                         *)
(* The program is a single-threaded Node.js process: an async function     *)
(* runs without interruption up to its next `await`, and other handlers    *)
(* (HTTP requests calling start/stop/triggerCycle, timer callbacks) run    *)
(* only while it is suspended.  Every invocation is a process of the       *)
(* model whose pc names the await it is suspended at.  One step of a       *)
(* process is the resumption from that await: it performs the awaited      *)
(* operation (a ledger-store call takes effect, or throws) and then all    *)
(* the synchronous code up to the next await.                              *)
(*                                                                         *)
(* Decimal quantities (USD amounts, prices, share counts) are exact        *)
(* rationals <<numerator, denominator>>.                                   *)
(***************************************************************************)
EXTENDS Integers, Sequences, FiniteSets, TLC

VARIABLES
    isRunning,      \* Scheduler.isRunning
    intervalId,     \* Scheduler.intervalId: the handle held, 0 for null
    cycleNumber,    \* Scheduler.cycleNumber
    timers,         \* the interval timers armed in the event loop
    procs,          \* the invocations of start / triggerCycle / timer callback
    tickCycles,     \* table tick_cycles, in insertion order
    agents,         \* table agents, in insertion order (row index = id)
    markets,        \* table markets
    trades,         \* table trades, in insertion order (row index = id)
    positions,      \* table positions: the set of rows
    nextPositionId, \* ids handed out to position rows
    metrics,        \* table performance_metrics, in insertion order
    alerts,         \* table alerts, in insertion order
    env,            \* the environment of this run (never changes)
    effectMounted,  \* useWebSocket: the effect has run and its cleanup has not
    isMounted,      \* isMountedRef.current
    wsRef,          \* wsRef.current: the socket held, 0 for null
    wsSockets,      \* the WebSockets created, by id: their readyState
    reconnectTimeoutRef,  \* reconnectTimeoutRef.current: the handle held, 0 for null
    hookTimeouts,   \* the timeouts set, by id: "armed", "fired" or "cleared"
    reconnectAttempts,    \* reconnectAttempts.current
    isConnected,    \* React state isConnected
    connectionStatus      \* React state connectionStatus

schedVars == <<isRunning, intervalId, cycleNumber, timers>>
hookVars == <<effectMounted, isMounted, wsRef, wsSockets, reconnectTimeoutRef,
              hookTimeouts, reconnectAttempts, isConnected, connectionStatus>>
ledgerVars == <<agents, markets, trades, positions, nextPositionId, metrics, alerts>>
vars == <<isRunning, intervalId, cycleNumber, timers, procs, tickCycles,
          agents, markets, trades, positions, nextPositionId, metrics, alerts, env, hookVars>>

-----------------------------------------------------------------------------
(* Bounds of the model *)

\* number of invocations (start, triggerCycle, timer ticks) in one behaviour
MaxCalls == 2
\* number of invocations in one behaviour of the ledger harness
MaxLedgerCalls == 2
\* number of tick_cycles rows persisted before the process started
MaxPersisted == 1
\* number of executeTrade calls in one behaviour of the executor harness
MaxExecCalls == 2
\* number of agents configured in the agents harness
MaxAgents == 2
\* number of getAgentDecision calls in one behaviour of the parser harness
MaxParseCalls == 1
\* number of executeTrade calls made within one day
MaxDayCalls == 5
\* calls of executeTrade and checkPerformanceAlerts in the alert harness
MaxAlertCalls == 4
\* calls of executeTrade with parsed provider responses
MaxProviderCalls == 2
\* WebSockets one mounted hook creates
MaxSockets == 3

(* Program constants *)

InitialBalance == 500
MaxTradePercentNum == 10
MaxTradePercentDen == 100
MinLiquidity == 1000
MaxDailyVolumePercentNum == 40
MaxDailyVolumePercentDen == 100
MaxSizeUsd == 50
LargeWinAmount == 25
LargeLossAmount == 20
SignificantDrawdown == 10
HighWinRateThreshold == 75
MaxAttempts == 10

\* the invocation slots of this run
ProcIds == DOMAIN procs

-----------------------------------------------------------------------------
(* Exact rational arithmetic for the decimal fields *)

RECURSIVE Gcd(_, _)
Gcd(a, b) == IF b = 0 THEN a ELSE Gcd(b, a % b)

Abs(x) == IF x < 0 THEN -x ELSE x

Norm(n, d) ==
    LET s == IF d < 0 THEN -1 ELSE 1
        g == Gcd(Abs(n), Abs(d))
    IN  IF n = 0 THEN <<0, 1>> ELSE <<(s * n) \div g, (s * d) \div g>>

R(n) == <<n, 1>>
RAdd(x, y) == Norm(x[1] * y[2] + y[1] * x[2], x[2] * y[2])
RSub(x, y) == Norm(x[1] * y[2] - y[1] * x[2], x[2] * y[2])
RMul(x, y) == Norm(x[1] * y[1], x[2] * y[2])
RDiv(x, y) == Norm(x[1] * y[2], x[2] * y[1])
RLt(x, y) == x[1] * y[2] < y[1] * x[2]
RLe(x, y) == x[1] * y[2] <= y[1] * x[2]


RMin(x, y) == IF RLe(x, y) THEN x ELSE y

RECURSIVE Pow10(_)
Pow10(k) == IF k = 0 THEN 1 ELSE 10 * Pow10(k - 1)

\* long division: k more digits of rem / d appended to the quotient q
RECURSIVE Digits(_, _, _, _)
Digits(q, rem, d, k) ==
    IF k = 0 THEN <<q, rem>>
    ELSE Digits(10 * q + (10 * rem) \div d, (10 * rem) % d, d, k - 1)

\* what a decimal(precision, scale) column stores for x: x rounded to scale
\* fraction digits, half away from zero
ToDecimal(x, scale) ==
    LET a == Abs(x[1])
        qr == Digits(a \div x[2], a % x[2], x[2], scale)
        up == IF 2 * qr[2] >= x[2] THEN qr[1] + 1 ELSE qr[1]
    IN  IF Pow10(scale) % x[2] = 0 THEN x
        ELSE Norm(IF x[1] < 0 THEN -up ELSE up, Pow10(scale))

-----------------------------------------------------------------------------
(* Configuration and the inputs the environment supplies *)

\* config.models: the names of the agents that can be configured
AgentNames == <<"GPT-5", "Grok-4", "Claude-Opus-4.5", "Gemini-3-Pro">>

MarketIds == {"m1"}

\* what the Polymarket feed reports for the markets
MarketFeed ==
    [m \in MarketIds |->
        [yesPrice |-> <<1, 2>>, noPrice |-> <<1, 2>>,
         liquidity |-> R(5000), isResolved |-> FALSE]]

NoDecision == [kind |-> "none"]

\* AgentDecision values getAgentDecision can yield for one agent: a failure
\* (error set), no action (tradeAction null), or a parsed TradeAction
TradeActions ==
    [kind : {"action"}, action : {"BUY", "SELL"}, market_id : MarketIds,
     side : {"YES"}, size_usd : {R(50)}, max_price : {R(1)}]
        \cup
    [kind : {"action"}, action : {"HOLD"}, market_id : MarketIds,
     side : {"YES"}, size_usd : {R(0)}, max_price : {R(0)}]

DecisionFailures == {[kind |-> "error"], [kind |-> "null"]}

HoldActions == {d \in TradeActions : d.action = "HOLD"}

\* The environment of a run: config.models as loaded (configs), whether calls
\* of the ledger store may throw (faulty), how many invocations of start,
\* triggerCycle and the timer callback are made (calls), and what the
\* decision providers may answer (decisions), and which venue credentials
\* the process environment holds (credentials)
AgentConfigs == env.configs

DecisionChoices == env.decisions

-----------------------------------------------------------------------------
(* AIAgentService.parseTradeAction: the provider's response and its parsing *)

\* the number a JavaScript value that is not a number coerces to
NaN == <<0, 0>>

IsNumber(x) == x[2] # 0

\* a JSON member as parseTradeAction sees it: absent, a number, or a string
\* that is not a numeral (it coerces to NaN)
Absent == [type |-> "absent", num |-> NaN]
Number(x) == [type |-> "number", num |-> x]
Text == [type |-> "string", num |-> NaN]

\* !v for a member holding a number or a string: undefined, 0 and NaN are falsy
Falsy(v) == v.type = "absent" \/ (v.type = "number" /\ (~IsNumber(v.num) \/ v.num = R(0)))

\* !s for a member holding a string ("absent" stands for undefined)
FalsyString(s) == s \in {"absent", ""}

\* Math.min(x, y): NaN when an argument is NaN
MathMin(x, y) == IF IsNumber(x) /\ IsNumber(y) THEN RMin(x, y) ELSE NaN

\* a response that JSON.parse rejects, or an empty one
Unparsable ==
    [json |-> FALSE, action |-> "absent", market_id |-> "absent", side |-> "absent",
     size_usd |-> Absent, max_price |-> Absent]

\* the responses a provider may give
Contents ==
    [json : {TRUE}, action : {"absent", "BUY", "SELL", "HOLD", "WAIT"},
     market_id : {"absent", "", "m1"}, side : {"absent", "YES", "NO"},
     size_usd : {Absent, Number(R(0)), Number(R(25)), Number(R(60)), Number(R(-50)), Text},
     max_price : {Absent, Number(R(0)), Number(<<2, 5>>)}]
        \cup {Unparsable}

\* parseTradeAction: null, or the TradeAction built from the parsed object
ParseTradeAction(content) ==
    IF ~content.json \/ content.action \notin {"BUY", "SELL", "HOLD"}
    THEN [kind |-> "null"]
    ELSE IF content.action = "HOLD"
    THEN [kind |-> "action", action |-> "HOLD",
          market_id |-> IF FalsyString(content.market_id) THEN "" ELSE content.market_id,
          side |-> IF FalsyString(content.side) THEN "YES" ELSE content.side,
          size_usd |-> R(0), max_price |-> R(0)]
    ELSE IF FalsyString(content.market_id) \/ FalsyString(content.side)
            \/ Falsy(content.size_usd)
    THEN [kind |-> "null"]
    ELSE [kind |-> "action", action |-> content.action,
          market_id |-> content.market_id, side |-> content.side,
          size_usd |-> MathMin(content.size_usd.num, R(MaxSizeUsd)),
          max_price |-> IF Falsy(content.max_price) THEN R(1)
                        ELSE content.max_price.num]

-----------------------------------------------------------------------------
(* Processes *)

NoPosition == [id |-> 0]

NewProc ==
    [op |-> "none",         \* "start", "trigger", "tick" or "exec"
     pc |-> "new",          \* (also "decide": getAgentDecision called directly)
     viaStart |-> FALSE,    \* history: a triggerCycle() that took the start() branch
     afterStop |-> FALSE,   \* history: a tick that fired while StopReturned
     thrownAt |-> "none",   \* history: where an escaped exception was raised
     lastRead |-> 0,        \* history: the cycleNumber start() read from the store
     cycles |-> 0,          \* history: runCycle() calls this invocation made
     armed |-> FALSE,       \* history: this invocation called setInterval
     result |-> "none",     \* executeTrade called directly: "executed" or the error returned
     content |-> "none",    \* getAgentDecision called directly: the provider's response
     num |-> 0,             \* runCycle: the cycleNumber passed to createCycle
     row |-> 0,             \* runCycle: cycle.id, index into tickCycles
     mp |-> 0, te |-> 0, ec |-> 0,   \* marketsProcessed, tradesExecuted, errorCount
     idx |-> 0,             \* loop index (agent configs, agents)
     decisions |-> <<>>,    \* decisions collected / still to be processed
     agentId |-> 0,         \* executeTrade: agentId
     action |-> NoDecision, \* executeTrade: action
     balance |-> R(0),      \* executeTrade: agent.currentBalance as read
     price |-> R(0),        \* executeTrade: currentPrice as read
     tradeId |-> 0,         \* executeTrade: trade.id
     pos |-> NoPosition]    \* simulateTrade: the position row as read

StartPath(rec) == rec.op = "start" \/ (rec.op = "trigger" /\ rec.viaStart)

CyclePcs == {"rc_create", "rc_collect", "rc_decide", "rc_agent",
             "rc_reval", "rc_complete", "rc_summary", "rc_fail",
             "ex_validate", "ex_snapshot", "ex_trade", "ex_balance",
             "ex_getpos", "ex_pos", "ex_status", "ex_statusf", "ex_metrics"}

InCycle(p) == procs[p].pc \in CyclePcs

Ended(p) == procs[p].pc \in {"returned", "threw"}

\* the next unused invocation slot
NewPid(p) ==
    /\ p <= env.calls
    /\ procs[p].pc = "new"
    /\ \A q \in ProcIds : q < p => procs[q].pc # "new"

\* a ledger-store call may throw
CanFault == env.faulty

\* process.env: the names of the venue credentials
Credentials ==
    {"POLYMARKET_PRIVATE_KEY", "POLYMARKET_API_KEY", "POLYMARKET_API_SECRET",
     "POLYMARKET_PASSPHRASE"}

\* the locals of executeTrade are dropped when it returns
ClearTrade(rec) ==
    [rec EXCEPT !.agentId = 0, !.action = NoDecision, !.balance = R(0),
                !.price = R(0), !.tradeId = 0, !.pos = NoPosition]

\* the locals of a finished invocation are dropped, its history kept
Finish(rec, pc) ==
    [NewProc EXCEPT !.op = rec.op, !.pc = pc, !.viaStart = rec.viaStart,
                    !.afterStop = rec.afterStop, !.thrownAt = rec.thrownAt,
                    !.cycles = rec.cycles, !.armed = rec.armed,
                    !.result = rec.result]

\* an exception leaves the invocation (a rejected promise)
ThrowOut(rec, where) == Finish([rec EXCEPT !.thrownAt = where], "threw")

-----------------------------------------------------------------------------
(* Ledger store: tick_cycles *)

RECURSIVE MaxCycleNumber(_)
MaxCycleNumber(rows) ==
    IF rows = <<>> THEN 0
    ELSE LET m == MaxCycleNumber(Tail(rows))
         IN  IF Head(rows).cycleNumber > m THEN Head(rows).cycleNumber ELSE m

\* storage.getLastCycle: the row with the highest cycleNumber, 0 when none
GetLastCycleNumber == MaxCycleNumber(tickCycles)

\* storage.createCycle
CreateCycle(num) ==
    Append(tickCycles,
           [cycleNumber |-> num, status |-> "running", marketsProcessed |-> 0,
            tradesExecuted |-> 0, errorCount |-> 0, updates |-> 0])

\* storage.updateCycle; updates counts the writes of the row (history)
UpdateCycle(id, status, mp, te, ec) ==
    [tickCycles EXCEPT ![id] =
        [@ EXCEPT !.status = status, !.marketsProcessed = mp,
                  !.tradesExecuted = te, !.errorCount = ec,
                  !.updates = @ + 1]]

PersistedCycles(n) ==
    [i \in 1..n |->
        [cycleNumber |-> i, status |-> "completed", marketsProcessed |-> 1,
         tradesExecuted |-> 0, errorCount |-> 0, updates |-> 1]]

(* Ledger store: agents *)

NewAgent(name) ==
    [name |-> name, initialBalance |-> R(InitialBalance),
     currentBalance |-> R(InitialBalance), isActive |-> TRUE]

AgentExists(name) == \E i \in DOMAIN agents : agents[i].name = name

PersistedAgents(configs) == [i \in DOMAIN configs |-> NewAgent(configs[i])]

-----------------------------------------------------------------------------
(* useWebSocket: the hook of the dashboard page.  Its handlers run to their
   end one at a time (the browser's event loop); a socket's open, error and
   close events and the timeouts are delivered later, as events of their own *)

\* the hook after its first render, before its effect has run
HookInit ==
    /\ effectMounted = FALSE
    /\ isMounted = TRUE
    /\ wsRef = 0
    /\ wsSockets = <<>>
    /\ reconnectTimeoutRef = 0
    /\ hookTimeouts = <<>>
    /\ reconnectAttempts = 0
    /\ isConnected = FALSE
    /\ connectionStatus = "disconnected"

serverVars == <<schedVars, procs, tickCycles, ledgerVars, env>>

\* another WebSocket can still be created in this run
CanCreate == Len(wsSockets) < MaxSockets

\* the connections that are live: connecting or open
Live == {s \in DOMAIN wsSockets : wsSockets[s] \in {"CONNECTING", "OPEN"}}

\* WebSocket.close(): a connecting or open socket starts closing, its close
\* event comes later; on a closing or closed socket nothing happens
Close(sockets, s) ==
    IF sockets[s] \in {"CONNECTING", "OPEN"} THEN [sockets EXCEPT ![s] = "CLOSING"]
    ELSE sockets

\* clearTimeout: an armed timeout is cancelled
ClearTimeout(timeouts, t) ==
    IF timeouts[t] = "armed" THEN [timeouts EXCEPT ![t] = "cleared"] ELSE timeouts

\* connect(), called when the refs hold `mounted`, `sockets` and `ref`:
\* nothing when unmounted or when the socket held is OPEN, otherwise a new
\* WebSocket is created and held
Connect(mounted, sockets, ref) ==
    IF ~mounted \/ (ref # 0 /\ sockets[ref] = "OPEN")
    THEN /\ wsSockets' = sockets
         /\ wsRef' = ref
         /\ UNCHANGED connectionStatus
    ELSE /\ wsSockets' = Append(sockets, "CONNECTING")
         /\ wsRef' = Len(sockets) + 1
         /\ connectionStatus' = "connecting"

\* the effect runs (on mount, and again after its cleanup when `connect`
\* changes): isMountedRef.current = true; connect()
Mount ==
    /\ ~effectMounted
    /\ CanCreate
    /\ effectMounted' = TRUE
    /\ isMounted' = TRUE
    /\ Connect(TRUE, wsSockets, wsRef)
    /\ UNCHANGED <<reconnectTimeoutRef, hookTimeouts, reconnectAttempts, isConnected,
                   serverVars>>

\* the effect's cleanup
Unmount ==
    /\ effectMounted
    /\ effectMounted' = FALSE
    /\ isMounted' = FALSE
    /\ hookTimeouts' = IF reconnectTimeoutRef # 0
                       THEN ClearTimeout(hookTimeouts, reconnectTimeoutRef)
                       ELSE hookTimeouts
    /\ reconnectTimeoutRef' = 0
    /\ wsSockets' = IF wsRef # 0 THEN Close(wsSockets, wsRef) ELSE wsSockets
    /\ wsRef' = 0
    /\ UNCHANGED <<reconnectAttempts, isConnected, connectionStatus, serverVars>>

\* reconnect(), called from the page while the hook is mounted
Reconnect ==
    /\ effectMounted
    /\ CanCreate
    /\ hookTimeouts' = IF reconnectTimeoutRef # 0
                       THEN ClearTimeout(hookTimeouts, reconnectTimeoutRef)
                       ELSE hookTimeouts
    /\ reconnectTimeoutRef' = 0
    /\ reconnectAttempts' = 0
    /\ Connect(isMounted, IF wsRef # 0 THEN Close(wsSockets, wsRef) ELSE wsSockets, 0)
    /\ UNCHANGED <<effectMounted, isMounted, isConnected, serverVars>>

\* the connection of socket s is established: ws.onopen
SocketOpens(s) ==
    /\ wsSockets[s] = "CONNECTING"
    /\ IF ~isMounted
       THEN /\ wsSockets' = [wsSockets EXCEPT ![s] = "CLOSING"]
            /\ UNCHANGED <<isConnected, connectionStatus, reconnectAttempts>>
       ELSE /\ wsSockets' = [wsSockets EXCEPT ![s] = "OPEN"]
            /\ isConnected' = TRUE
            /\ connectionStatus' = "connected"
            /\ reconnectAttempts' = 0
    /\ UNCHANGED <<effectMounted, isMounted, wsRef, reconnectTimeoutRef, hookTimeouts,
                   serverVars>>

\* the connection of socket s fails: ws.onerror; its close event follows
SocketError(s) ==
    /\ wsSockets[s] \in {"CONNECTING", "OPEN"}
    /\ wsSockets' = [wsSockets EXCEPT ![s] = "CLOSING"]
    /\ connectionStatus' = IF isMounted THEN "error" ELSE connectionStatus
    /\ UNCHANGED <<effectMounted, isMounted, wsRef, reconnectTimeoutRef, hookTimeouts,
                   reconnectAttempts, isConnected, serverVars>>

\* the close event of socket s (closed by the hook, by the server or by a
\* failure): ws.onclose
SocketCloses(s) ==
    /\ wsSockets[s] \in {"CONNECTING", "OPEN", "CLOSING"}
    /\ wsSockets' = [wsSockets EXCEPT ![s] = "CLOSED"]
    /\ IF ~isMounted
       THEN UNCHANGED <<wsRef, reconnectTimeoutRef, hookTimeouts, reconnectAttempts,
                        isConnected, connectionStatus>>
       ELSE /\ isConnected' = FALSE
            /\ connectionStatus' = "disconnected"
            /\ wsRef' = 0
            /\ IF reconnectAttempts < MaxAttempts
               THEN /\ reconnectAttempts' = reconnectAttempts + 1
                    /\ hookTimeouts' = Append(hookTimeouts, "armed")
                    /\ reconnectTimeoutRef' = Len(hookTimeouts) + 1
               ELSE UNCHANGED <<reconnectAttempts, hookTimeouts, reconnectTimeoutRef>>
    /\ UNCHANGED <<effectMounted, isMounted, serverVars>>

\* the reconnect timeout t fires: if (isMountedRef.current) connect()
TimeoutFires(t) ==
    /\ hookTimeouts[t] = "armed"
    /\ isMounted => CanCreate
    /\ hookTimeouts' = [hookTimeouts EXCEPT ![t] = "fired"]
    /\ Connect(isMounted, wsSockets, wsRef)
    /\ UNCHANGED <<effectMounted, isMounted, reconnectTimeoutRef, reconnectAttempts,
                   isConnected, serverVars>>

-----------------------------------------------------------------------------
\* the state after construction, in environment e: the process has just
\* started, over a store that is empty or holds the rows of earlier runs
InitIn(e) ==
    /\ env = e
    /\ isRunning = FALSE
    /\ intervalId = 0
    /\ cycleNumber = 0
    /\ timers = {}
    /\ procs = [p \in 1..e.calls |-> NewProc]
    /\ \E n \in {0, MaxPersisted} :
          /\ tickCycles = PersistedCycles(n)
          /\ agents = IF n = 0 THEN <<>> ELSE PersistedAgents(e.configs)
    /\ markets = MarketFeed
    /\ trades = <<>>
    /\ positions = {}
    /\ nextPositionId = 1
    /\ metrics = <<>>
    /\ alerts = <<>>
    /\ HookInit

-----------------------------------------------------------------------------
(* Scheduler.runCycle, entry: the synchronous code up to createCycle *)

\* runCycle(): this.cycleNumber++, then storage.createCycle is called with it
EnterCycle(rec) ==
    [rec EXCEPT !.pc = "rc_create", !.num = cycleNumber + 1,
                !.cycles = @ + 1]

\* the catch block of runCycle: storage.updateCycle(failed) is called
Catch(rec) ==
    [ClearTrade(rec) EXCEPT !.pc = "rc_fail", !.idx = 0, !.decisions = <<>>]

\* a loop over the decisions that ends at the first failed decision
RECURSIVE AbortOnError(_)
AbortOnError(rec) ==
    IF rec.idx > Len(rec.decisions) \/ rec.decisions[rec.idx].kind = "error"
    THEN [rec EXCEPT !.pc = "rc_reval", !.idx = 0]
    ELSE LET d == rec.decisions[rec.idx]
         IN  IF d.kind = "null" \/ d.action = "HOLD"
             THEN AbortOnError([rec EXCEPT !.idx = @ + 1])
             ELSE [rec EXCEPT !.pc = "ex_validate", !.agentId = rec.idx,
                              !.action = d]

\* the for loop over the decisions, up to the first executeTrade call:
\* a failed decision counts an error, null and HOLD are skipped
RECURSIVE ProcessDecisions(_)
ProcessDecisions(rec) ==
    IF rec.idx > Len(rec.decisions)
    THEN [rec EXCEPT !.pc = "rc_reval", !.idx = 0]
    ELSE LET d == rec.decisions[rec.idx]
         IN  IF d.kind = "error"
             THEN ProcessDecisions([rec EXCEPT !.ec = @ + 1, !.idx = @ + 1])
             ELSE IF d.kind = "null" \/ d.action = "HOLD"
             THEN ProcessDecisions([rec EXCEPT !.idx = @ + 1])
             ELSE [rec EXCEPT !.pc = "ex_validate", !.agentId = rec.idx,
                              !.action = d]

\* runCycle returned normally: start() arms the timer, the others are done
Return(p, rec) ==
    IF StartPath(rec)
    THEN /\ intervalId' = p
         /\ timers' = timers \cup {p}
         /\ procs' = [procs EXCEPT ![p] = Finish([rec EXCEPT !.armed = TRUE], "returned")]
    ELSE /\ UNCHANGED <<intervalId, timers, metrics>>
         /\ procs' = [procs EXCEPT ![p] = Finish(rec, "returned")]

-----------------------------------------------------------------------------
(* Scheduler.start, Scheduler.stop, Scheduler.triggerCycle, the timer *)

\* a guard on the timer handle instead of the running flag
TimerHeld == intervalId # 0

\* the guard of start(): if (this.isRunning) return
AlreadyRunning == isRunning

\* a branch on the timer handle instead of the running flag
TimerNotHeld == intervalId = 0

\* the branch of triggerCycle(): start() when not running, else runCycle()
TriggerStarts == ~isRunning

\* start() up to its first await: the guard, isRunning = true, getLastCycle called
BeginStart(p, op) ==
    /\ IF AlreadyRunning
       THEN /\ procs' = [procs EXCEPT ![p] = Finish([NewProc EXCEPT !.op = op], "returned")]
            /\ UNCHANGED isRunning
       ELSE /\ isRunning' = TRUE
            /\ procs' = [procs EXCEPT ![p] =
                           [NewProc EXCEPT !.op = op, !.pc = "s_last",
                                           !.viaStart = (op = "trigger")]]
    /\ UNCHANGED <<intervalId, cycleNumber, timers, tickCycles, ledgerVars, env, hookVars>>

StartCall(p) ==
    /\ NewPid(p)
    /\ BeginStart(p, "start")

\* stop(): no await, so it runs to its end in one step
Stop ==
    /\ IF ~isRunning
       THEN UNCHANGED <<isRunning, intervalId, timers, metrics>>
       ELSE /\ isRunning' = FALSE
            /\ IF intervalId # 0
               THEN /\ timers' = timers \ {intervalId}
                    /\ intervalId' = 0
               ELSE UNCHANGED <<intervalId, timers, metrics>>
    /\ UNCHANGED <<cycleNumber, procs, tickCycles, ledgerVars, env, hookVars>>

TriggerCall(p) ==
    /\ NewPid(p)
    /\ IF TriggerStarts
       THEN BeginStart(p, "trigger")
       ELSE /\ procs' = [procs EXCEPT ![p] = EnterCycle([NewProc EXCEPT !.op = "trigger"])]
            /\ cycleNumber' = cycleNumber + 1
            /\ UNCHANGED <<isRunning, intervalId, timers, tickCycles, ledgerVars, env, hookVars>>

\* A stop() has returned and no start() was called since.  isRunning is
\* false from construction to the first start() call and from the return of
\* a stop() to the next start() call, and no timer exists before the first
\* start() call; so when a timer fires this is the same as ~isRunning.
StopReturned == ~isRunning

\* an armed interval timer fires: () => this.runCycle()
TimerTick(p) ==
    /\ NewPid(p)
    /\ timers # {}
    /\ procs' = [procs EXCEPT ![p] =
                    EnterCycle([NewProc EXCEPT !.op = "tick", !.afterStop = StopReturned])]
    /\ cycleNumber' = cycleNumber + 1
    /\ UNCHANGED <<isRunning, intervalId, timers, tickCycles, ledgerVars, env, hookVars>>

\* start(): storage.getLastCycle() resumes; initializeAgents calls getAgents
StartLastCycle(p) ==
    /\ procs[p].pc = "s_last"
    /\ \/ /\ cycleNumber' = GetLastCycleNumber
          /\ procs' = [procs EXCEPT ![p] =
                         [@ EXCEPT !.pc = "s_agents", !.idx = 1,
                                   !.lastRead = GetLastCycleNumber]]
       \/ /\ CanFault
          /\ procs' = [procs EXCEPT ![p] = ThrowOut(@, "start")]
          /\ UNCHANGED cycleNumber
    /\ UNCHANGED <<isRunning, intervalId, timers, tickCycles, ledgerVars, env, hookVars>>

\* initializeAgents: after the config at rec.idx is done, the next config's
\* getAgents is called, or, after the last, start() goes on to runCycle()
NextConfig(p, rec) ==
    IF rec.idx < Len(AgentConfigs)
    THEN /\ procs' = [procs EXCEPT ![p] = [rec EXCEPT !.pc = "s_agents", !.idx = @ + 1]]
         /\ UNCHANGED cycleNumber
    ELSE /\ procs' = [procs EXCEPT ![p] = EnterCycle(rec)]
         /\ cycleNumber' = cycleNumber + 1

\* initializeAgents: storage.getAgents() resumes for the config at idx
InitAgentsRead(p) ==
    /\ procs[p].pc = "s_agents"
    /\ \/ /\ IF AgentExists(AgentConfigs[procs[p].idx])
             THEN NextConfig(p, procs[p])
             ELSE /\ procs' = [procs EXCEPT ![p] = [@ EXCEPT !.pc = "s_create"]]
                  /\ UNCHANGED cycleNumber
       \/ /\ CanFault
          /\ procs' = [procs EXCEPT ![p] = ThrowOut(@, "start")]
          /\ UNCHANGED cycleNumber
    /\ UNCHANGED <<isRunning, intervalId, timers, tickCycles, ledgerVars, env, hookVars>>

\* initializeAgents: storage.createAgent() resumes for the config at idx
InitAgentsCreate(p) ==
    /\ procs[p].pc = "s_create"
    /\ \/ /\ agents' = Append(agents, NewAgent(AgentConfigs[procs[p].idx]))
          /\ NextConfig(p, procs[p])
       \/ /\ CanFault
          /\ procs' = [procs EXCEPT ![p] = ThrowOut(@, "start")]
          /\ UNCHANGED <<cycleNumber, agents, metrics>>
    /\ UNCHANGED <<isRunning, intervalId, timers, tickCycles, markets, trades,
                   positions, nextPositionId, metrics, alerts, env, hookVars>>

-----------------------------------------------------------------------------
(* Scheduler.runCycle: one action per await *)

\* storage.createCycle() resumes (outside the try block); collectAll is called
CycleCreate(p) ==
    /\ procs[p].pc = "rc_create"
    /\ \/ /\ tickCycles' = CreateCycle(procs[p].num)
          /\ procs' = [procs EXCEPT ![p] =
                         [@ EXCEPT !.pc = "rc_collect", !.row = Len(tickCycles) + 1,
                                   !.num = 0, !.lastRead = 0]]
       \/ /\ CanFault
          /\ procs' = [procs EXCEPT ![p] = ThrowOut(@, "cycle")]
          /\ UNCHANGED tickCycles
    /\ UNCHANGED <<schedVars, ledgerVars, env, hookVars>>

\* dataCollector.collectAll() resumes: the feed answered, or the fetch failed
\* and the stored markets were returned, or that read threw too; then
\* getDecisions is called
CycleCollect(p) ==
    /\ procs[p].pc = "rc_collect"
    /\ \/ /\ procs' = [procs EXCEPT ![p] =
                         [@ EXCEPT !.pc = "rc_decide", !.mp = Cardinality(MarketIds)]]
          /\ markets' \in {markets, MarketFeed}
       \/ /\ CanFault
          /\ procs' = [procs EXCEPT ![p] = Catch(@)]
          /\ UNCHANGED markets
    /\ UNCHANGED <<schedVars, tickCycles, agents, trades, positions, nextPositionId, metrics, alerts, env, hookVars>>

\* the sequences of n decisions the providers may give
RECURSIVE DecisionLists(_)
DecisionLists(n) ==
    IF n = 0 THEN {<<>>}
    ELSE {Append(ds, d) : ds \in DecisionLists(n - 1), d \in DecisionChoices}

\* getDecisions resumes: storage.getAgents() was read (or threw) and every
\* active agent's getAgentDecision gave its decision (a failure is caught
\* there and becomes an error decision); the trade loop starts
CycleDecide(p) ==
    /\ procs[p].pc = "rc_decide"
    /\ \/ \E ds \in DecisionLists(Len(agents)) :
             procs' = [procs EXCEPT ![p] =
                         ProcessDecisions([@ EXCEPT !.idx = 1, !.decisions = ds])]
       \/ /\ CanFault
          /\ procs' = [procs EXCEPT ![p] = Catch(@)]
    /\ UNCHANGED <<schedVars, tickCycles, ledgerVars, env, hookVars>>

\* a failed trade that ends the loop over the decisions
TradeFailedStops(rec, error) ==
    [ClearTrade(rec) EXCEPT !.ec = @ + 1, !.pc = "rc_reval", !.idx = 0]

\* executeTrade returned to the loop of runCycle
\* with success false: errorCount++, next decision
\* (a direct caller of executeTrade gets the result instead)
TradeFailed(rec, error) ==
    IF rec.op = "exec"
    THEN Finish([rec EXCEPT !.result = error], "returned")
    ELSE ProcessDecisions([ClearTrade(rec) EXCEPT !.ec = @ + 1, !.idx = @ + 1])

\* with success true: tradesExecuted++, storage.getAgent is called
TradeSucceeded(rec) ==
    IF rec.op = "exec"
    THEN Finish([rec EXCEPT !.result = "executed"], "returned")
    ELSE [ClearTrade(rec) EXCEPT !.pc = "rc_agent", !.te = @ + 1]

\* after a successful trade: storage.getAgent() resumes, the trade is broadcast
CycleAgent(p) ==
    /\ procs[p].pc = "rc_agent"
    /\ \/ /\ procs' = [procs EXCEPT ![p] =
                         ProcessDecisions([@ EXCEPT !.idx = @ + 1])]
       \/ /\ CanFault
          /\ procs' = [procs EXCEPT ![p] = Catch(@)]
    /\ UNCHANGED <<schedVars, tickCycles, ledgerVars, env, hookVars>>

\* storage.updateCycle(completed) resumes; the summary reads are called
CycleComplete(p) ==
    /\ procs[p].pc = "rc_complete"
    /\ \/ /\ tickCycles' = UpdateCycle(procs[p].row, "completed", procs[p].mp,
                                       procs[p].te, procs[p].ec)
          /\ procs' = [procs EXCEPT ![p] = [@ EXCEPT !.pc = "rc_summary"]]
       \/ /\ CanFault
          /\ procs' = [procs EXCEPT ![p] = Catch(@)]
          /\ UNCHANGED tickCycles
    /\ UNCHANGED <<schedVars, ledgerVars, env, hookVars>>

\* storage.getLastCycle: the rows that ORDER BY cycle_number DESC LIMIT 1 can
\* return (indexes into tickCycles)
LastCycleRows ==
    {i \in DOMAIN tickCycles : tickCycles[i].cycleNumber = MaxCycleNumber(tickCycles)}

\* the cycle_complete messages runCycle can broadcast when its summary reads
\* resume: the cycle is the row getLastCycle returned, the counts are its own
CycleCompleteEvents(p) ==
    {[type |-> "cycle_complete", cycle |-> i,
      tradesExecuted |-> procs[p].te, marketsProcessed |-> procs[p].mp] :
        i \in LastCycleRows}

\* Promise.all([getAgents(), getLatestMetrics()]) and storage.getLastCycle()
\* resume, cycle_complete is broadcast and runCycle returns
CycleSummary(p) ==
    /\ procs[p].pc = "rc_summary"
    /\ \/ Return(p, procs[p])
       \/ /\ CanFault
          /\ procs' = [procs EXCEPT ![p] = Catch(@)]
          /\ UNCHANGED <<intervalId, timers, metrics>>
    /\ UNCHANGED <<isRunning, cycleNumber, tickCycles, ledgerVars, env, hookVars>>

\* the catch block: storage.updateCycle(failed) resumes, runCycle returns
CycleFail(p) ==
    /\ procs[p].pc = "rc_fail"
    /\ \/ /\ tickCycles' = UpdateCycle(procs[p].row, "failed", procs[p].mp,
                                       procs[p].te, procs[p].ec + 1)
          /\ Return(p, procs[p])
       \/ /\ CanFault
          /\ procs' = [procs EXCEPT ![p] = ThrowOut(@, "cycle")]
          /\ UNCHANGED <<intervalId, timers, tickCycles, metrics>>
    /\ UNCHANGED <<isRunning, cycleNumber, ledgerVars, env, hookVars>>

-----------------------------------------------------------------------------
(* TradeExecutor *)

\* a cap of the whole current balance
WholeBalance(agent) == agent.currentBalance

MaxTradeSize(agent) ==
    RDiv(RMul(agent.initialBalance, R(MaxTradePercentNum)), R(MaxTradePercentDen))

\* the rows storage.getPosition can return: a matching row, or none
PositionReads(agentId, marketId, side) ==
    LET found == {q \in positions : /\ q.agentId = agentId
                                    /\ q.marketId = marketId
                                    /\ q.side = side}
    IN  IF found = {} THEN {NoPosition} ELSE found

\* validateTrade, given the rows it read: the error of the first check that
\* fails, "none" when the trade is valid
ValidationError(agent, market, action, position) ==
    IF action.action = "HOLD" THEN "none"
    ELSE IF market.isResolved THEN "resolved"
    ELSE IF action.action = "BUY" /\ RLt(agent.currentBalance, action.size_usd)
    THEN "insufficient balance"
    ELSE IF RLt(MaxTradeSize(agent), action.size_usd) THEN "exceeds limit"
    ELSE IF RLt(market.liquidity, R(MinLiquidity)) THEN "liquidity too low"
    ELSE IF action.action = "SELL"
            /\ \/ position = NoPosition
               \/ RLt(RMul(position.shares, position.entryPrice), action.size_usd)
    THEN "insufficient position"
    ELSE "none"

ValidTrade(agent, market, action, position) ==
    ValidationError(agent, market, action, position) = "none"

\* a check of the price limit that never rejects
NoPriceLimit(action, price) == FALSE

\* executeTrade: a BUY above the action's max_price is rejected
ExceedsMaxPrice(action, price) ==
    action.action = "BUY" /\ RLt(action.max_price, price)

\* executeTrade: the market's current price on the requested side
CurrentPrice(market, side) == IF side = "YES" THEN market.yesPrice ELSE market.noPrice

\* TradeExecutor.isSimulation, set by the constructor
IsSimulation ==
    ~({"POLYMARKET_PRIVATE_KEY", "POLYMARKET_API_KEY", "POLYMARKET_API_SECRET"}
          \subseteq env.credentials)

\* executeRealTrade finds its credentials and falls back to simulateTrade
RealTradeFallsBack ==
    {"POLYMARKET_API_KEY", "POLYMARKET_API_SECRET", "POLYMARKET_PASSPHRASE"}
        \subseteq env.credentials

\* executeTrade after createTrade: simulateTrade is entered (directly or from
\* executeRealTrade) and calls updateAgentBalance for a BUY or SELL; for any
\* other action it returns true at once and updateTradeStatus(executed) is
\* called; executeRealTrade without its credentials returns false and
\* updateTradeStatus(failed) is called
AfterCreateTrade(action) ==
    IF ~IsSimulation /\ ~RealTradeFallsBack THEN "ex_statusf"
    ELSE IF action.action \in {"BUY", "SELL"} THEN "ex_balance"
    ELSE "ex_status"

\* a balance that is credited whatever the action
CreditBalance(balance, action) == RAdd(balance, action.size_usd)

\* simulateTrade: the balance written, from the agent row executeTrade read
NewBalance(balance, action) ==
    IF action.action = "BUY"
    THEN RSub(balance, action.size_usd)
    ELSE RAdd(balance, action.size_usd)

\* a position write that adds the shares of a BUY and leaves entryPrice as it was
KeepEntryPrice(rec, position) ==
    LET shares == RDiv(rec.action.size_usd, rec.price)
    IN  IF position = NoPosition
        THEN positions \cup
               {[id |-> nextPositionId, agentId |-> rec.agentId,
                 marketId |-> rec.action.market_id, side |-> rec.action.side,
                 shares |-> shares, entryPrice |-> rec.price,
                 currentValue |-> rec.action.size_usd, unrealizedPnl |-> R(0)]}
        ELSE {IF q.id = position.id THEN [q EXCEPT !.shares = RAdd(@, shares)] ELSE q :
                 q \in positions}

\* simulateTrade: the position write made after getPosition returned `position`
PositionWrite(rec, position) ==
    LET shares == RDiv(rec.action.size_usd, rec.price)
    IN  IF rec.action.action = "BUY"
        THEN IF position # NoPosition
             THEN LET existingValue == RMul(position.shares, position.entryPrice)
                      newShares == RAdd(position.shares, shares)
                  IN  {IF q.id = position.id
                       THEN [q EXCEPT !.shares = ToDecimal(newShares, 6),
                                      !.entryPrice = ToDecimal(RDiv(RAdd(existingValue, rec.action.size_usd), newShares), 4),
                                      !.currentValue = ToDecimal(RMul(newShares, rec.price), 2)]
                       ELSE q : q \in positions}
             ELSE positions \cup
                    {[id |-> nextPositionId, agentId |-> rec.agentId,
                      marketId |-> rec.action.market_id, side |-> rec.action.side,
                      shares |-> ToDecimal(shares, 6),
                      entryPrice |-> ToDecimal(rec.price, 4),
                      currentValue |-> ToDecimal(rec.action.size_usd, 2),
                      unrealizedPnl |-> R(0)]}
        ELSE LET remainingShares == RSub(position.shares, shares)
             IN  IF RLe(remainingShares, <<1, 1000>>)
                 THEN {q \in positions : q.id # position.id}
                 ELSE {IF q.id = position.id
                       THEN [q EXCEPT !.shares = ToDecimal(remainingShares, 6),
                                      !.currentValue = ToDecimal(RMul(remainingShares, rec.price), 2)]
                       ELSE q : q \in positions}

\* storage.updateTradeStatus
UpdateTradeStatus(id, status) == [trades EXCEPT ![id] = [@ EXCEPT !.status = status]]

\* an exception inside executeTrade is caught there: success false
ExecThrows(p) ==
    /\ CanFault
    /\ procs' = [procs EXCEPT ![p] = TradeFailed(@, "exception")]

\* an exception inside simulateTrade is caught there: it returns false and
\* executeTrade calls updateTradeStatus(failed)
SimulateThrows(p) ==
    /\ CanFault
    /\ procs' = [procs EXCEPT ![p] = [@ EXCEPT !.pc = "ex_statusf"]]

\* validateTrade resumes (its reads of agent, market and position);
\* when valid, executeTrade calls storage.getAgent
ExecValidate(p) ==
    /\ procs[p].pc = "ex_validate"
    /\ \/ /\ \E position \in PositionReads(procs[p].agentId, procs[p].action.market_id,
                                           procs[p].action.side) :
                LET error == ValidationError(agents[procs[p].agentId],
                                             markets[procs[p].action.market_id],
                                             procs[p].action, position)
                IN  procs' = [procs EXCEPT ![p] =
                                IF error = "none"
                                THEN [@ EXCEPT !.pc = "ex_snapshot"]
                                ELSE TradeFailed(@, error)]
       \/ ExecThrows(p)
    /\ UNCHANGED <<schedVars, tickCycles, ledgerVars, env, hookVars>>

\* storage.getAgent and storage.getMarket resume; the price limit is checked
\* and storage.createTrade is called
ExecSnapshot(p) ==
    /\ procs[p].pc = "ex_snapshot"
    /\ \/ /\ LET price == CurrentPrice(markets[procs[p].action.market_id],
                                       procs[p].action.side)
             IN  procs' = [procs EXCEPT ![p] =
                             IF ExceedsMaxPrice(procs[p].action, price)
                             THEN TradeFailed(@, "price exceeds max")
                             ELSE [@ EXCEPT !.pc = "ex_trade", !.price = price,
                                            !.balance = agents[procs[p].agentId].currentBalance]]
       \/ ExecThrows(p)
    /\ UNCHANGED <<schedVars, tickCycles, ledgerVars, env, hookVars>>

\* storage.createTrade resumes; simulateTrade or executeRealTrade is entered
ExecTrade(p) ==
    /\ procs[p].pc = "ex_trade"
    /\ \/ /\ trades' = Append(trades,
                          [agentId |-> procs[p].agentId, action |-> procs[p].action.action,
                           marketId |-> procs[p].action.market_id,
                           side |-> procs[p].action.side,
                           sizeUsd |-> ToDecimal(procs[p].action.size_usd, 2),
                           price |-> ToDecimal(procs[p].price, 4),
                           shares |-> ToDecimal(RDiv(procs[p].action.size_usd, procs[p].price), 6),
                           status |-> "pending"])
          /\ procs' = [procs EXCEPT ![p] =
                         [@ EXCEPT !.pc = AfterCreateTrade(procs[p].action),
                                   !.tradeId = Len(trades) + 1]]
       \/ /\ ExecThrows(p)
          /\ UNCHANGED trades
    /\ UNCHANGED <<schedVars, tickCycles, agents, markets, positions, nextPositionId, metrics, alerts, env, hookVars>>

\* storage.updateAgentBalance resumes; simulateTrade calls getPosition
ExecBalance(p) ==
    /\ procs[p].pc = "ex_balance"
    /\ \/ /\ agents' = [agents EXCEPT ![procs[p].agentId].currentBalance =
                           NewBalance(procs[p].balance, procs[p].action)]
          /\ procs' = [procs EXCEPT ![p] = [@ EXCEPT !.pc = "ex_getpos"]]
       \/ /\ SimulateThrows(p)
          /\ UNCHANGED agents
    /\ UNCHANGED <<schedVars, tickCycles, markets, trades, positions, nextPositionId, metrics, alerts, env, hookVars>>

\* storage.getPosition resumes; the position write is called (a SELL that
\* finds no position writes nothing and simulateTrade returns true)
ExecGetPos(p) ==
    /\ procs[p].pc = "ex_getpos"
    /\ \/ /\ \E position \in PositionReads(procs[p].agentId, procs[p].action.market_id,
                                           procs[p].action.side) :
                procs' = [procs EXCEPT ![p] =
                            IF procs[p].action.action = "SELL" /\ position = NoPosition
                            THEN [@ EXCEPT !.pc = "ex_status"]
                            ELSE [@ EXCEPT !.pc = "ex_pos", !.pos = position]]
       \/ SimulateThrows(p)
    /\ UNCHANGED <<schedVars, tickCycles, ledgerVars, env, hookVars>>

\* updatePosition / createPosition / deletePosition resumes; simulateTrade
\* returns true and executeTrade calls updateTradeStatus(executed)
ExecPos(p) ==
    /\ procs[p].pc = "ex_pos"
    /\ \/ /\ positions' = PositionWrite(procs[p], procs[p].pos)
          /\ nextPositionId' = IF procs[p].action.action = "BUY" /\ procs[p].pos = NoPosition
                               THEN nextPositionId + 1 ELSE nextPositionId
          /\ procs' = [procs EXCEPT ![p] = [@ EXCEPT !.pc = "ex_status"]]
       \/ /\ SimulateThrows(p)
          /\ UNCHANGED <<positions, nextPositionId, metrics>>
    /\ UNCHANGED <<schedVars, tickCycles, agents, markets, trades, metrics, alerts, env, hookVars>>

\* storage.updateTradeStatus(executed) resumes; updateMetrics is called
ExecStatus(p) ==
    /\ procs[p].pc = "ex_status"
    /\ \/ /\ trades' = UpdateTradeStatus(procs[p].tradeId, "executed")
          /\ procs' = [procs EXCEPT ![p] = [@ EXCEPT !.pc = "ex_metrics"]]
       \/ /\ ExecThrows(p)
          /\ UNCHANGED trades
    /\ UNCHANGED <<schedVars, tickCycles, agents, markets, positions, nextPositionId, metrics, alerts, env, hookVars>>

RMax(x, y) == IF RLe(x, y) THEN y ELSE x

\* Math.floor of a rational
Floor(x) == x[1] \div x[2]

\* updateMetrics: the sum of unrealizedPnl over a set of position rows
RECURSIVE SumUnrealizedPnl(_)
SumUnrealizedPnl(rows) ==
    IF rows = {} THEN R(0)
    ELSE LET q == CHOOSE q \in rows : TRUE
         IN  RAdd(q.unrealizedPnl, SumUnrealizedPnl(rows \ {q}))

\* updateMetrics(agent): the row it creates.  agent is the row executeTrade
\* read before the trade was applied (rec.balance is its currentBalance);
\* trades and positions are read from the store now
MetricsRow(rec) ==
    LET initialBalance == agents[rec.agentId].initialBalance
        totalTrades == Cardinality({i \in DOMAIN trades :
                                      /\ trades[i].agentId = rec.agentId
                                      /\ trades[i].status = "executed"})
        unrealizedPnl == SumUnrealizedPnl({q \in positions : q.agentId = rec.agentId})
        netPnl == RAdd(RSub(rec.balance, initialBalance), unrealizedPnl)
        pnlRatio == RDiv(netPnl, initialBalance)
        estimatedWinRate == RMax(<<3, 10>>, RMin(<<7, 10>>, RAdd(<<1, 2>>, pnlRatio)))
        winningTrades == Floor(RMul(R(totalTrades), estimatedWinRate))
        winRate == IF totalTrades > 0 THEN RDiv(R(winningTrades), R(totalTrades)) ELSE R(0)
        maxDrawdown == RMin(R(0), pnlRatio)
    IN  [agentId |-> rec.agentId, netPnl |-> ToDecimal(netPnl, 2),
         maxDrawdown |-> ToDecimal(maxDrawdown, 4),
         winRate |-> ToDecimal(winRate, 4), totalTrades |-> totalTrades,
         winningTrades |-> winningTrades]

\* updateMetrics and storage.getTrades(1) resume; executeTrade returns success
\* true.  updateMetrics catches its own exceptions (no row is created then);
\* an exception of getTrades is caught by executeTrade
ExecMetrics(p) ==
    /\ procs[p].pc = "ex_metrics"
    /\ \/ /\ metrics' = Append(metrics, MetricsRow(procs[p]))
          /\ procs' = [procs EXCEPT ![p] = TradeSucceeded(@)]
       \/ /\ CanFault
          /\ UNCHANGED metrics
          /\ procs' = [procs EXCEPT ![p] = TradeSucceeded(@)]
       \/ /\ metrics' \in {metrics, Append(metrics, MetricsRow(procs[p]))}
          /\ ExecThrows(p)
    /\ UNCHANGED <<schedVars, tickCycles, agents, markets, trades, positions,
                   nextPositionId, alerts, env, hookVars>>

\* storage.updateTradeStatus(failed) resumes; executeTrade returns success false
ExecStatusFailed(p) ==
    /\ procs[p].pc = "ex_statusf"
    /\ \/ /\ trades' = UpdateTradeStatus(procs[p].tradeId, "failed")
          /\ procs' = [procs EXCEPT ![p] = TradeFailed(@, "execution failed")]
       \/ /\ ExecThrows(p)
          /\ UNCHANGED trades
    /\ UNCHANGED <<schedVars, tickCycles, agents, markets, positions, nextPositionId, metrics, alerts, env, hookVars>>

\* updatePositionValues: the positions after the rows in S were revalued at
\* their markets' prices (a row whose market is unknown is skipped)
RevaluedIn(S) ==
    {IF q \in S /\ q.marketId \in DOMAIN markets
     THEN LET price == CurrentPrice(markets[q.marketId], q.side)
          IN  [q EXCEPT !.currentValue = ToDecimal(RMul(q.shares, price), 2),
                        !.unrealizedPnl = ToDecimal(RMul(RSub(price, q.entryPrice), q.shares), 2)]
     ELSE q
     : q \in positions}

\* updatePositionValues: every position revalued
Revalued == RevaluedIn(positions)

\* tradeExecutor.updatePositionValues() resumes; storage.updateCycle(completed)
\* is called.  updatePositionValues catches its own exceptions: when one of
\* its store calls throws, the rows it had not reached keep their values
CycleReval(p) ==
    /\ procs[p].pc = "rc_reval"
    /\ \/ /\ positions' = Revalued
       \/ /\ CanFault
          /\ \E S \in SUBSET positions : positions' = RevaluedIn(S)
    /\ procs' = [procs EXCEPT ![p] = [@ EXCEPT !.pc = "rc_complete", !.decisions = <<>>]]
    /\ UNCHANGED <<schedVars, tickCycles, agents, markets, trades, nextPositionId, metrics, alerts, env, hookVars>>

-----------------------------------------------------------------------------
(* AlertService *)

NoMetrics == [agentId |-> 0]

\* the performance_metrics rows of an agent (indexes into metrics)
MetricsOf(agentId) == {i \in DOMAIN metrics : metrics[i].agentId = agentId}

\* the newest of a set of rows
Latest(rows) == CHOOSE i \in rows : \A j \in rows : j <= i

\* checkPerformanceAlerts(agent, metrics, previousMetrics): the alerts whose
\* thresholds are met, in the order createAlert is called for them
PerformanceAlerts(agentId, row, previous) ==
    LET netPnL == row.netPnl
        maxDrawdown == row.maxDrawdown
        winRate == row.winRate
        pnlChange == IF previous = NoMetrics THEN R(0) ELSE RSub(netPnL, previous.netPnl)
        Alert(type, severity) == [type |-> type, severity |-> severity, agentId |-> agentId]
    IN  (IF previous # NoMetrics /\ RLe(R(LargeWinAmount), pnlChange)
         THEN <<Alert("large_win", "info")>> ELSE <<>>)
        \o (IF previous # NoMetrics /\ RLe(pnlChange, R(-LargeLossAmount))
            THEN <<Alert("large_loss", "warning")>> ELSE <<>>)
        \o (IF RLe(R(SignificantDrawdown), maxDrawdown)
            THEN <<Alert("risk_breach", "critical")>> ELSE <<>>)
        \o (IF RLe(R(HighWinRateThreshold), winRate) /\ row.totalTrades >= 5
            THEN <<Alert("market_opportunity", "info")>> ELSE <<>>)

\* the subsequences of a sequence
RECURSIVE SubSeqs(_)
SubSeqs(s) ==
    IF s = <<>> THEN {<<>>}
    ELSE LET rest == SubSeqs(Tail(s))
         IN  rest \cup {<<Head(s)>> \o t : t \in rest}

\* createAlert catches its own exceptions: an alert whose storage.createAlert
\* throws is not persisted, the others are
Persisted(new) == IF CanFault THEN SubSeqs(new) ELSE {new}

\* alertService.checkPerformanceAlerts is called for an agent with its latest
\* metrics snapshot, with or without the snapshot before it, and runs to its
\* end (no other handler is started while it is suspended)
CheckPerformanceAlertsCall(p) ==
    /\ NewPid(p)
    /\ \A q \in ProcIds : procs[q].pc \in {"new", "returned", "threw"}
    /\ \E a \in DOMAIN agents :
          LET rows == MetricsOf(a)
              earlier == rows \ {Latest(rows)}
          IN  /\ rows # {}
              /\ \E previous \in {NoMetrics} \cup
                                  (IF earlier # {} THEN {metrics[Latest(earlier)]} ELSE {}) :
                  \E new \in Persisted(PerformanceAlerts(a, metrics[Latest(rows)], previous)) :
                      alerts' = alerts \o new
              /\ procs' = [procs EXCEPT ![p] =
                             [NewProc EXCEPT !.op = "alerts", !.pc = "returned", !.agentId = a]]
    /\ UNCHANGED <<schedVars, tickCycles, agents, markets, trades, positions,
                   nextPositionId, metrics, env, hookVars>>

-----------------------------------------------------------------------------
(* Specifications *)

\* Scheduler harness: MaxCalls invocations over a store that may throw; the
\* providers fail, return nothing or hold, so no trade is executed
SchedEnv ==
    [credentials |-> {}, configs |-> <<AgentNames[1]>>, faulty |-> TRUE, calls |-> MaxCalls,
     decisions |-> DecisionFailures \cup HoldActions]

Init == InitIn(SchedEnv)

Next ==
    \/ \E p \in ProcIds : StartCall(p)
    \/ Stop
    \/ \E p \in ProcIds : TriggerCall(p)
    \/ \E p \in ProcIds : TimerTick(p)
    \/ \E p \in ProcIds : StartLastCycle(p)
    \/ \E p \in ProcIds : InitAgentsRead(p)
    \/ \E p \in ProcIds : InitAgentsCreate(p)
    \/ \E p \in ProcIds : CycleCreate(p)
    \/ \E p \in ProcIds : CycleCollect(p)
    \/ \E p \in ProcIds : CycleDecide(p)
    \/ \E p \in ProcIds : CycleReval(p)
    \/ \E p \in ProcIds : CycleComplete(p)
    \/ \E p \in ProcIds : CycleSummary(p)
    \/ \E p \in ProcIds : CycleFail(p)

Spec == Init /\ [][Next]_vars

\* Ledger harness: MaxLedgerCalls invocations over a store that does not throw; the
\* providers return purchases, which the concurrent cycles execute
LedgerEnv ==
    [credentials |-> {}, configs |-> <<AgentNames[1]>>, faulty |-> FALSE, calls |-> MaxLedgerCalls,
     decisions |-> {d \in TradeActions : d.action = "BUY"}]

InitLedger == InitIn(LedgerEnv)

NextLedger ==
    \/ \E p \in ProcIds : StartCall(p)
    \/ Stop
    \/ \E p \in ProcIds : TriggerCall(p)
    \/ \E p \in ProcIds : TimerTick(p)
    \/ \E p \in ProcIds : StartLastCycle(p)
    \/ \E p \in ProcIds : InitAgentsRead(p)
    \/ \E p \in ProcIds : InitAgentsCreate(p)
    \/ \E p \in ProcIds : CycleCreate(p)
    \/ \E p \in ProcIds : CycleCollect(p)
    \/ \E p \in ProcIds : CycleDecide(p)
    \/ \E p \in ProcIds : ExecValidate(p)
    \/ \E p \in ProcIds : ExecSnapshot(p)
    \/ \E p \in ProcIds : ExecTrade(p)
    \/ \E p \in ProcIds : ExecBalance(p)
    \/ \E p \in ProcIds : ExecGetPos(p)
    \/ \E p \in ProcIds : ExecPos(p)
    \/ \E p \in ProcIds : ExecStatus(p)
    \/ \E p \in ProcIds : ExecMetrics(p)
    \/ \E p \in ProcIds : CycleAgent(p)
    \/ \E p \in ProcIds : CycleReval(p)
    \/ \E p \in ProcIds : CycleComplete(p)
    \/ \E p \in ProcIds : CycleSummary(p)

SpecLedger == InitLedger /\ [][NextLedger]_vars

-----------------------------------------------------------------------------
(* The Trade Executor on its own: executeTrade called one call at a time, as
   the loop of runCycle does, with actions and market prices of any kind *)

\* the actions passed to executeTrade: sizes below, at and above the cap and
\* below zero, price limits at and below the market prices
ExecActions ==
    [kind : {"action"}, action : {"BUY"}, market_id : MarketIds, side : {"YES"},
     size_usd : {R(25), R(MaxSizeUsd), R(60), R(-50)}, max_price : {R(1), <<2, 5>>}]
        \cup
    [kind : {"action"}, action : {"SELL"}, market_id : MarketIds, side : {"YES"},
     size_usd : {<<125, 4>>, R(MaxSizeUsd), <<125, 2>>}, max_price : {R(1)}]

\* the prices the feed reports
FeedPrices == {<<2, 5>>, <<1, 2>>}

\* no invocation is suspended at an await
Quiet == \A q \in ProcIds : procs[q].pc \in {"new", "returned", "threw"}

\* tradeExecutor.executeTrade(agentId, action) is called; validateTrade is
\* called.  The caller awaits each call before it makes the next.
ExecuteTradeCall(p) ==
    /\ NewPid(p)
    /\ Quiet
    /\ \E a \in DOMAIN agents, action \in DecisionChoices :
          procs' = [procs EXCEPT ![p] =
                       [NewProc EXCEPT !.op = "exec", !.pc = "ex_validate",
                                       !.agentId = a, !.action = action]]
    /\ UNCHANGED <<schedVars, tickCycles, ledgerVars, env, hookVars>>

\* collectPolymarketData stores the prices the feed reports for a market
MarketUpdate ==
    /\ Quiet
    /\ \E m \in MarketIds, yes \in env.prices :
          /\ markets[m].yesPrice # yes
          /\ markets' = [markets EXCEPT ![m].yesPrice = ToDecimal(yes, 4),
                                        ![m].noPrice = ToDecimal(RSub(R(1), yes), 4)]
    /\ UNCHANGED <<schedVars, procs, tickCycles, agents, trades, positions,
                   nextPositionId, metrics, alerts, env, hookVars>>

\* the number of BUYs of MaxSizeUsd that use up the initial balance
PriorBuys == InitialBalance \div MaxSizeUsd

\* the trades, the balance and the position that k executed BUYs of
\* MaxSizeUsd, YES at the feed's price, leave for the first agent
PriorTrades(k) ==
    [i \in 1..k |->
        [agentId |-> 1, action |-> "BUY", marketId |-> "m1", side |-> "YES",
         sizeUsd |-> R(MaxSizeUsd), price |-> MarketFeed["m1"].yesPrice,
         shares |-> RDiv(R(MaxSizeUsd), MarketFeed["m1"].yesPrice),
         status |-> "executed"]]

PriorPositions(k) ==
    IF k = 0 THEN {}
    ELSE {[id |-> 1, agentId |-> 1, marketId |-> "m1", side |-> "YES",
           shares |-> RDiv(R(k * MaxSizeUsd), MarketFeed["m1"].yesPrice),
           entryPrice |-> MarketFeed["m1"].yesPrice,
           currentValue |-> R(k * MaxSizeUsd), unrealizedPnl |-> R(0)]}

ExecEnv ==
    [credentials |-> {}, configs |-> <<AgentNames[1]>>, faulty |-> TRUE, calls |-> MaxExecCalls,
     decisions |-> ExecActions, prices |-> FeedPrices]

\* the store holds the agent and what earlier runs left: nothing, or the
\* trades that used up the agent's balance
InitExec ==
    /\ env = ExecEnv
    /\ isRunning = FALSE
    /\ intervalId = 0
    /\ cycleNumber = 0
    /\ timers = {}
    /\ procs = [p \in 1..ExecEnv.calls |-> NewProc]
    /\ tickCycles = <<>>
    /\ markets = MarketFeed
    /\ \E k \in {0, PriorBuys} :
          /\ agents = [PersistedAgents(ExecEnv.configs) EXCEPT
                          ![1].currentBalance = R(InitialBalance - k * MaxSizeUsd)]
          /\ trades = PriorTrades(k)
          /\ positions = PriorPositions(k)
          /\ nextPositionId = IF k = 0 THEN 1 ELSE 2
    /\ metrics = <<>>
    /\ alerts = <<>>
    /\ HookInit

NextExec ==
    \/ \E p \in ProcIds : ExecuteTradeCall(p)
    \/ MarketUpdate
    \/ \E p \in ProcIds : ExecValidate(p)
    \/ \E p \in ProcIds : ExecSnapshot(p)
    \/ \E p \in ProcIds : ExecTrade(p)
    \/ \E p \in ProcIds : ExecBalance(p)
    \/ \E p \in ProcIds : ExecGetPos(p)
    \/ \E p \in ProcIds : ExecPos(p)
    \/ \E p \in ProcIds : ExecStatus(p)
    \/ \E p \in ProcIds : ExecMetrics(p)
    \/ \E p \in ProcIds : ExecStatusFailed(p)

SpecExec == InitExec /\ [][NextExec]_vars

-----------------------------------------------------------------------------
(* One start() and its first cycle over several agents whose providers
   answer with responses that are parsed, or fail; the store may throw *)

\* the responses the providers give in the cycle harness: an unparsable one,
\* an unknown action tag, a BUY without size, a HOLD, a BUY above the cap and
\* a SELL
CycleContents ==
    {Unparsable} \cup
    {c \in Contents :
        /\ c.json /\ c.market_id = "m1" /\ c.side = "YES" /\ c.max_price = Absent
        /\ \/ c.action \in {"WAIT", "HOLD"} /\ c.size_usd = Number(R(25))
           \/ c.action = "BUY" /\ c.size_usd \in {Absent, Number(R(60))}
           \/ c.action = "SELL" /\ c.size_usd = Number(R(25))}

\* getAgentDecision: the decision made from a response, which it carries
\* along (history)
Decide(content) ==
    LET d == ParseTradeAction(content)
    IN  IF d.kind = "null" THEN [kind |-> "null", content |-> content]
        ELSE [kind |-> "action", action |-> d.action, market_id |-> d.market_id,
              side |-> d.side, size_usd |-> d.size_usd, max_price |-> d.max_price,
              content |-> content]

CycleEnv ==
    [credentials |-> {}, configs |-> SubSeq(AgentNames, 1, MaxAgents),
     faulty |-> TRUE, calls |-> 1,
     decisions |-> {[kind |-> "error"]} \cup {Decide(c) : c \in CycleContents}]

InitCycle == InitIn(CycleEnv)

NextCycle ==
    \/ \E p \in ProcIds : StartCall(p)
    \/ \E p \in ProcIds : StartLastCycle(p)
    \/ \E p \in ProcIds : InitAgentsRead(p)
    \/ \E p \in ProcIds : InitAgentsCreate(p)
    \/ \E p \in ProcIds : CycleCreate(p)
    \/ \E p \in ProcIds : CycleCollect(p)
    \/ \E p \in ProcIds : CycleDecide(p)
    \/ \E p \in ProcIds : ExecValidate(p)
    \/ \E p \in ProcIds : ExecSnapshot(p)
    \/ \E p \in ProcIds : ExecTrade(p)
    \/ \E p \in ProcIds : ExecBalance(p)
    \/ \E p \in ProcIds : ExecGetPos(p)
    \/ \E p \in ProcIds : ExecPos(p)
    \/ \E p \in ProcIds : ExecStatus(p)
    \/ \E p \in ProcIds : ExecMetrics(p)
    \/ \E p \in ProcIds : ExecStatusFailed(p)
    \/ \E p \in ProcIds : CycleAgent(p)
    \/ \E p \in ProcIds : CycleReval(p)
    \/ \E p \in ProcIds : CycleComplete(p)
    \/ \E p \in ProcIds : CycleSummary(p)
    \/ \E p \in ProcIds : CycleFail(p)

SpecCycle == InitCycle /\ [][NextCycle]_vars

-----------------------------------------------------------------------------
(* One day of executeTrade calls, each awaited before the next, with any
   combination of venue credentials: BUY, SELL and HOLD at the feed's price;
   the store does not throw *)

DayActions ==
    [kind : {"action"}, action : {"BUY", "SELL"}, market_id : MarketIds,
     side : {"YES"}, size_usd : {R(MaxSizeUsd)}, max_price : {R(1)}]
        \cup HoldActions

DayEnv ==
    [credentials |-> {}, configs |-> <<AgentNames[1]>>, faulty |-> FALSE,
     calls |-> MaxDayCalls, decisions |-> DayActions]

InitDay ==
    /\ \E present \in SUBSET Credentials :
          env = [DayEnv EXCEPT !.credentials = present]
    /\ isRunning = FALSE
    /\ intervalId = 0
    /\ cycleNumber = 0
    /\ timers = {}
    /\ procs = [p \in 1..DayEnv.calls |-> NewProc]
    /\ tickCycles = <<>>
    /\ markets = MarketFeed
    /\ agents = PersistedAgents(DayEnv.configs)
    /\ trades = <<>>
    /\ positions = {}
    /\ nextPositionId = 1
    /\ metrics = <<>>
    /\ alerts = <<>>
    /\ HookInit

NextDay ==
    \/ \E p \in ProcIds : ExecuteTradeCall(p)
    \/ \E p \in ProcIds : ExecValidate(p)
    \/ \E p \in ProcIds : ExecSnapshot(p)
    \/ \E p \in ProcIds : ExecTrade(p)
    \/ \E p \in ProcIds : ExecBalance(p)
    \/ \E p \in ProcIds : ExecGetPos(p)
    \/ \E p \in ProcIds : ExecPos(p)
    \/ \E p \in ProcIds : ExecStatus(p)
    \/ \E p \in ProcIds : ExecMetrics(p)
    \/ \E p \in ProcIds : ExecStatusFailed(p)

SpecDay == InitDay /\ [][NextDay]_vars

-----------------------------------------------------------------------------
(* One start() and its first cycle over a store that holds the positions of
   earlier runs, valued at the price of their purchase, and markets whose
   stored price may have moved since; the store may throw *)

RevalEnv ==
    [credentials |-> {}, configs |-> <<AgentNames[1]>>, faulty |-> TRUE, calls |-> 1,
     decisions |-> DecisionFailures \cup TradeActions]

InitReval ==
    /\ env = RevalEnv
    /\ isRunning = FALSE
    /\ intervalId = 0
    /\ cycleNumber = 0
    /\ timers = {}
    /\ procs = [p \in 1..RevalEnv.calls |-> NewProc]
    /\ tickCycles = PersistedCycles(MaxPersisted)
    /\ \E yes \in FeedPrices :
          markets = [MarketFeed EXCEPT !["m1"].yesPrice = yes,
                                       !["m1"].noPrice = RSub(R(1), yes)]
    /\ \E k \in {0, PriorBuys} :
          /\ agents = [PersistedAgents(RevalEnv.configs) EXCEPT
                          ![1].currentBalance = R(InitialBalance - k * MaxSizeUsd)]
          /\ trades = PriorTrades(k)
          /\ positions = PriorPositions(k)
          /\ nextPositionId = IF k = 0 THEN 1 ELSE 2
    /\ metrics = <<>>
    /\ alerts = <<>>
    /\ HookInit

NextReval ==
    \/ \E p \in ProcIds : StartCall(p)
    \/ \E p \in ProcIds : StartLastCycle(p)
    \/ \E p \in ProcIds : InitAgentsRead(p)
    \/ \E p \in ProcIds : CycleCreate(p)
    \/ \E p \in ProcIds : CycleCollect(p)
    \/ \E p \in ProcIds : CycleDecide(p)
    \/ \E p \in ProcIds : ExecValidate(p)
    \/ \E p \in ProcIds : ExecSnapshot(p)
    \/ \E p \in ProcIds : ExecTrade(p)
    \/ \E p \in ProcIds : ExecBalance(p)
    \/ \E p \in ProcIds : ExecGetPos(p)
    \/ \E p \in ProcIds : ExecPos(p)
    \/ \E p \in ProcIds : ExecStatus(p)
    \/ \E p \in ProcIds : ExecMetrics(p)
    \/ \E p \in ProcIds : ExecStatusFailed(p)
    \/ \E p \in ProcIds : CycleAgent(p)
    \/ \E p \in ProcIds : CycleReval(p)
    \/ \E p \in ProcIds : CycleComplete(p)
    \/ \E p \in ProcIds : CycleSummary(p)
    \/ \E p \in ProcIds : CycleFail(p)

SpecReval == InitReval /\ [][NextReval]_vars

-----------------------------------------------------------------------------
(* executeTrade calls, each awaited before the next, and checkPerformanceAlerts
   calls on the metrics snapshots they leave *)

AlertEnv ==
    [credentials |-> {}, configs |-> <<AgentNames[1]>>, faulty |-> FALSE,
     calls |-> MaxAlertCalls, decisions |-> DayActions]

InitAlerts == InitIn(AlertEnv)

NextAlerts ==
    \/ \E p \in ProcIds : ExecuteTradeCall(p)
    \/ \E p \in ProcIds : ExecValidate(p)
    \/ \E p \in ProcIds : ExecSnapshot(p)
    \/ \E p \in ProcIds : ExecTrade(p)
    \/ \E p \in ProcIds : ExecBalance(p)
    \/ \E p \in ProcIds : ExecGetPos(p)
    \/ \E p \in ProcIds : ExecPos(p)
    \/ \E p \in ProcIds : ExecStatus(p)
    \/ \E p \in ProcIds : ExecMetrics(p)
    \/ \E p \in ProcIds : CheckPerformanceAlertsCall(p)

SpecAlerts == InitAlerts /\ [][NextAlerts]_vars

-----------------------------------------------------------------------------
(* executeTrade called, one call at a time, with the actions parseTradeAction
   makes of provider responses whose size is negative, fractional or large *)

\* the responses the providers give: BUY or SELL of a market, with a size
\* below zero, a fractional size and a size far below zero
ProviderContents ==
    [json : {TRUE}, action : {"BUY", "SELL"}, market_id : {"m1"}, side : {"YES", "NO"},
     size_usd : {Number(<<25, 2>>), Number(R(-50)), Number(R(-1000))},
     max_price : {Absent}]

ProviderEnv ==
    [credentials |-> {}, configs |-> <<AgentNames[1]>>, faulty |-> FALSE,
     calls |-> MaxProviderCalls, decisions |-> {Decide(c) : c \in ProviderContents}]

InitProvider == InitIn(ProviderEnv)

NextProvider ==
    \/ \E p \in ProcIds : ExecuteTradeCall(p)
    \/ \E p \in ProcIds : ExecValidate(p)
    \/ \E p \in ProcIds : ExecSnapshot(p)
    \/ \E p \in ProcIds : ExecTrade(p)
    \/ \E p \in ProcIds : ExecBalance(p)
    \/ \E p \in ProcIds : ExecGetPos(p)
    \/ \E p \in ProcIds : ExecPos(p)
    \/ \E p \in ProcIds : ExecStatus(p)
    \/ \E p \in ProcIds : ExecMetrics(p)

SpecProvider == InitProvider /\ [][NextProvider]_vars

-----------------------------------------------------------------------------
(* The dashboard page: one useWebSocket hook, its sockets and its timeouts *)

NextHook ==
    \/ Mount
    \/ Unmount
    \/ Reconnect
    \/ \E s \in DOMAIN wsSockets : SocketOpens(s)
    \/ \E s \in DOMAIN wsSockets : SocketError(s)
    \/ \E s \in DOMAIN wsSockets : SocketCloses(s)
    \/ \E t \in DOMAIN hookTimeouts : TimeoutFires(t)

SpecHook == Init /\ [][NextHook]_vars

-----------------------------------------------------------------------------
(* getAgentDecision called for one agent, as getDecisions does: the provider
   answers with any of Contents, or the call throws *)

\* getAgentDecision(agent): storage.getPositionsByAgent and the provider are called
GetAgentDecisionCall(p) ==
    /\ NewPid(p)
    /\ \E a \in DOMAIN agents :
          procs' = [procs EXCEPT ![p] =
                      [@ EXCEPT !.op = "decide", !.pc = "ad_provider", !.agentId = a]]
    /\ UNCHANGED <<schedVars, tickCycles, ledgerVars, env, hookVars>>

\* the provider's response resumes and is parsed: the decision of the agent
ProviderAnswers(p) ==
    /\ procs[p].pc = "ad_provider"
    /\ \E content \in env.decisions :
          procs' = [procs EXCEPT ![p] =
                      [@ EXCEPT !.pc = "returned", !.content = content,
                                !.decisions = <<ParseTradeAction(content)>>]]
    /\ UNCHANGED <<schedVars, tickCycles, ledgerVars, env, hookVars>>

\* the provider call throws (no client, an API error): getDecisions catches
\* it and records an error decision
ProviderThrows(p) ==
    /\ procs[p].pc = "ad_provider"
    /\ procs' = [procs EXCEPT ![p] =
                   [@ EXCEPT !.pc = "returned", !.decisions = <<[kind |-> "error"]>>]]
    /\ UNCHANGED <<schedVars, tickCycles, ledgerVars, env, hookVars>>

ParseEnv ==
    [credentials |-> {}, configs |-> <<AgentNames[1]>>, faulty |-> FALSE, calls |-> MaxParseCalls,
     decisions |-> Contents]

InitParse == InitIn(ParseEnv)

NextParse ==
    \/ \E p \in ProcIds : GetAgentDecisionCall(p)
    \/ \E p \in ProcIds : ProviderAnswers(p)
    \/ \E p \in ProcIds : ProviderThrows(p)

SpecParse == InitParse /\ [][NextParse]_vars

-----------------------------------------------------------------------------
(* One start() and its first cycle over several agents: the providers fail,
   return nothing, hold or trade; the store does not throw *)

AgentsEnv ==
    [credentials |-> {}, configs |-> SubSeq(AgentNames, 1, MaxAgents), faulty |-> FALSE,
     calls |-> MaxCalls,
     decisions |-> DecisionFailures \cup TradeActions]

InitAgents == InitIn(AgentsEnv)

NextAgents ==
    \/ \E p \in ProcIds : StartCall(p)
    \/ \E p \in ProcIds : StartLastCycle(p)
    \/ \E p \in ProcIds : InitAgentsRead(p)
    \/ \E p \in ProcIds : InitAgentsCreate(p)
    \/ \E p \in ProcIds : CycleCreate(p)
    \/ \E p \in ProcIds : CycleCollect(p)
    \/ \E p \in ProcIds : CycleDecide(p)
    \/ \E p \in ProcIds : ExecValidate(p)
    \/ \E p \in ProcIds : ExecSnapshot(p)
    \/ \E p \in ProcIds : ExecTrade(p)
    \/ \E p \in ProcIds : ExecBalance(p)
    \/ \E p \in ProcIds : ExecGetPos(p)
    \/ \E p \in ProcIds : ExecPos(p)
    \/ \E p \in ProcIds : ExecStatus(p)
    \/ \E p \in ProcIds : ExecMetrics(p)
    \/ \E p \in ProcIds : CycleAgent(p)
    \/ \E p \in ProcIds : CycleReval(p)
    \/ \E p \in ProcIds : CycleComplete(p)
    \/ \E p \in ProcIds : CycleSummary(p)

SpecAgents == InitAgents /\ [][NextAgents]_vars

-----------------------------------------------------------------------------
(* Properties of the scheduler, checked under Spec *)

\* C1: after stop() has returned and until a later start(), no timer-driven
\* cycle is started: no timer callback ever runs while the scheduler is stopped.
C1_NoTickAfterStop ==
    \A p \in ProcIds : procs[p].op = "tick" => ~procs[p].afterStop

\* C2: at most one cycle routine is active at any time.
C2_OneCycleAtATime ==
    Cardinality({p \in ProcIds : InCycle(p)}) <= 1

\* C3: a tick_cycles row is updated exactly once: no row is ever written a
\* second time after it reached completed or failed.
C3_UpdatedOnce ==
    \A i \in DOMAIN tickCycles : tickCycles[i].updates <= 1

\* C4: every row created with status running reaches completed or failed:
\* a running row always belongs to a cycle routine that is still active (a
\* row whose routine has ended stays as it is for ever).
C4_RunningRowHasCycle ==
    \A i \in DOMAIN tickCycles :
        tickCycles[i].status = "running" =>
            \E p \in ProcIds : InCycle(p) /\ procs[p].row = i

\* C5: no exception raised in the cycle routine escapes runCycle to the timer
\* callback or to the caller of start() / triggerCycle().
C5_NoEscape ==
    \A p \in ProcIds : procs[p].thrownAt # "cycle"

\* C6: every row created gets a cycleNumber strictly greater than that of
\* every row created before it, so no two rows share a cycleNumber.
C6_Monotonic ==
    \A i, j \in DOMAIN tickCycles :
        i < j => tickCycles[i].cycleNumber < tickCycles[j].cycleNumber

\* C7: start() called while the scheduler is running is a no-op: the call
\* returns at once having started no cycle and armed no timer, and leaves the
\* running flag, the cycle number, the timers, the cycle rows and the agents
\* as they were.
C7_StartWhileRunning ==
    [][\A p \in ProcIds :
          (procs[p].pc = "new" /\ procs'[p].op = "start" /\ isRunning) =>
              /\ procs'[p].pc = "returned"
              /\ procs'[p].cycles = 0
              /\ ~procs'[p].armed
              /\ UNCHANGED <<isRunning, intervalId, cycleNumber, timers,
                             tickCycles, agents, metrics>>]_vars

C7_Witness ==
    \E p \in ProcIds :
        /\ procs[p].op = "start" /\ procs[p].pc = "returned"
        /\ procs[p].cycles = 0 /\ ~procs[p].armed
        /\ isRunning

\* C8: the one cycle that start() runs from the stopped state is numbered
\* last + 1, where last is the cycleNumber start() resumed the counter from.
C8_FirstCycleNumber ==
    \A p \in ProcIds :
        (StartPath(procs[p]) /\ procs[p].pc = "rc_create") =>
            procs[p].num = procs[p].lastRead + 1

\* C9: triggerCycle() on a stopped scheduler does what start() does: the
\* scheduler becomes active and, when the call returns, it has run one cycle
\* and armed the timer.  On a running scheduler it runs exactly one cycle
\* and no step of it changes the running flag or the timers.
C9_Trigger ==
    [][\A p \in ProcIds :
          /\ (procs[p].pc = "new" /\ procs'[p].op = "trigger") =>
                IF isRunning
                THEN /\ procs'[p].pc = "rc_create"
                     /\ procs'[p].cycles = 1
                     /\ ~procs'[p].viaStart
                     /\ UNCHANGED <<isRunning, intervalId, timers, metrics>>
                ELSE /\ isRunning'
                     /\ procs'[p] = [NewProc EXCEPT !.op = "trigger", !.pc = "s_last",
                                                    !.viaStart = TRUE]
          /\ (procs[p].op = "trigger" /\ procs'[p] # procs[p]) =>
                IF procs[p].viaStart
                THEN /\ UNCHANGED isRunning
                     /\ procs'[p].cycles <= 1
                     /\ IF procs'[p].pc = "returned"
                        THEN /\ procs'[p].cycles = 1
                             /\ intervalId' = p
                             /\ timers' = timers \cup {p}
                        ELSE UNCHANGED <<intervalId, timers, metrics>>
                ELSE /\ procs'[p].cycles = 1
                     /\ UNCHANGED <<isRunning, intervalId, timers, metrics>>]_vars

C9_Witness ==
    \E p, q \in ProcIds :
        /\ procs[p].op = "trigger" /\ procs[p].viaStart
        /\ procs[p].pc = "returned" /\ procs[p].armed /\ p \in timers
        /\ procs[q].op = "trigger" /\ ~procs[q].viaStart
        /\ procs[q].pc = "returned" /\ procs[q].cycles = 1
        /\ isRunning /\ intervalId = p

\* C25: agent creation is idempotent by name: whatever the number and the
\* interleaving of the start() calls (restarts included), the agents table
\* never holds two agents of the same name.
C25_OneAgentPerName ==
    \A i, j \in DOMAIN agents : agents[i].name = agents[j].name => i = j

\* C33: the cycle_complete event of a cycle is published after the cycle's
\* row is marked completed and carries that row, also when another cycle has
\* been started in the meantime: whenever runCycle broadcasts it and
\* returns, the cycle in the message is the row this runCycle created.
C33_CompleteEventCarriesOwnCycle ==
    [][\A p \in ProcIds :
          (procs[p].pc = "rc_summary" /\ procs'[p].pc = "returned")
              => \A e \in CycleCompleteEvents(p) :
                    /\ e.cycle = procs[p].row
                    /\ tickCycles[e.cycle].status = "completed"]_vars

\* C35: a start() that fails with an exception before it arms the timer does
\* not leave the scheduler active: when the exception leaves start() (called
\* directly or through triggerCycle()), isActive() is false.
C35_FailedStartNotActive ==
    [][\A p \in ProcIds :
          (StartPath(procs[p]) /\ procs[p].pc # "threw" /\ procs'[p].pc = "threw")
              => ~isRunning']_vars

\* C36: at most one periodic timer is armed at any time, and a timer is armed
\* only while isActive() is true, for every interleaving of start(), stop()
\* and triggerCycle() calls.
C36_OneTimerWhileActive ==
    /\ Cardinality(timers) <= 1
    /\ timers # {} => isRunning

-----------------------------------------------------------------------------
(* Properties of one cycle over several agents, checked under SpecAgents *)

\* a decision that runCycle passes to the Trade Executor
Trading(d) == d.kind = "action" /\ d.action # "HOLD"

\* the number of failed decisions among ds[1..n]
RECURSIVE ErrorsIn(_, _)
ErrorsIn(ds, n) ==
    IF n = 0 THEN 0
    ELSE ErrorsIn(ds, n - 1) + (IF ds[n].kind = "error" THEN 1 ELSE 0)

ExecPcs == {"ex_validate", "ex_snapshot", "ex_trade", "ex_balance", "ex_getpos",
            "ex_pos", "ex_status", "ex_statusf", "ex_metrics"}

\* C11: in one cycle a decision is requested for every active agent, and
\* whenever the trade loop moves on (from getDecisions, or from one agent's turn)
\* it stops at the next agent with a non-HOLD action and passes that action to
\* the Trade Executor: only failed, empty and HOLD decisions are passed over,
\* and each failed decision passed over adds one to the error count.
C11_FailureIsolation ==
    [][\A p \in ProcIds :
          LET r == procs[p]
              r2 == procs'[p]
              ds == r2.decisions
              from == IF r.pc = "rc_decide" THEN 0 ELSE r.idx
              to == IF r2.pc = "rc_reval" THEN Len(ds) + 1 ELSE r2.idx
          IN  (/\ r2 # r
               /\ r.pc \in {"rc_decide", "rc_agent"} \cup ExecPcs
               /\ r2.pc \in {"rc_reval", "rc_agent"} \cup ExecPcs) =>
                  /\ Len(ds) = Cardinality({a \in DOMAIN agents : agents[a].isActive})
                  /\ r.pc # "rc_decide" => ds = r.decisions
                  /\ \A j \in (from + 1)..(to - 1) : ~Trading(ds[j])
                  /\ r2.pc = "ex_validate" =>
                        /\ Trading(ds[to])
                        /\ r2.agentId = to
                        /\ r2.action = ds[to]
                  /\ r.pc = "rc_decide" => r2.ec = ErrorsIn(ds, to - 1)]_vars

C11_Witness ==
    \E p \in ProcIds :
        /\ procs[p].pc = "ex_validate"
        /\ procs[p].idx = 2
        /\ procs[p].decisions[1].kind = "error"
        /\ procs[p].ec = 1

-----------------------------------------------------------------------------
(* Properties of the Trade Executor, checked under SpecExec *)

\* C12: the share count of a stored position is never negative, and a
\* position is never kept with zero shares.
C12_SharesPositive ==
    \A q \in positions : RLt(R(0), q.shares)

\* C14: when validateTrade finds a BUY whose size exceeds the agent's current
\* balance, the attempt is rejected, the balance and the positions are left
\* unchanged, and a trade with status failed records the attempt.
C14_RejectedBuyRecorded ==
    [][\A p \in ProcIds :
          (/\ procs[p].pc = "ex_validate"
           /\ procs'[p] # procs[p]
           /\ procs'[p].result # "exception"
           /\ procs[p].action.action = "BUY"
           /\ RLt(agents[procs[p].agentId].currentBalance, procs[p].action.size_usd)) =>
              /\ procs'[p].pc = "returned"
              /\ procs'[p].result = "insufficient balance"
              /\ agents' = agents
              /\ positions' = positions
              /\ Len(trades') = Len(trades) + 1
              /\ trades'[Len(trades')].agentId = procs[p].agentId
              /\ trades'[Len(trades')].status = "failed"]_vars

\* C15: no trade is left pending once executeTrade has returned: a pending
\* trade always belongs to an executeTrade call that is still running.
C15_NoTradeLeftPending ==
    \A t \in DOMAIN trades :
        trades[t].status = "pending" =>
            \E p \in ProcIds : procs[p].pc \in ExecPcs /\ procs[p].tradeId = t

\* C16: executeTrade has written nothing when it reads the market's price,
\* and a BUY whose price on the requested side exceeds the action's max_price
\* is rejected at that point: the call returns an error and the agents, the
\* positions and the trades are unchanged.
C16_PriceLimit ==
    [][\A p \in ProcIds :
          /\ (procs[p].pc \in {"ex_validate", "ex_snapshot"} /\ procs'[p] # procs[p])
                => UNCHANGED <<agents, positions, trades, metrics>>
          /\ (/\ procs[p].pc = "ex_snapshot"
              /\ procs'[p] # procs[p]
              /\ procs[p].action.action = "BUY"
              /\ RLt(procs[p].action.max_price,
                     CurrentPrice(markets[procs[p].action.market_id],
                                  procs[p].action.side))) =>
                 /\ procs'[p].pc = "returned"
                 /\ procs'[p].result \in {"price exceeds max", "exception"}]_vars

C16_Witness ==
    \E p \in ProcIds :
        /\ procs[p].pc = "returned"
        /\ procs[p].result = "price exceeds max"

\* the cap on the size of one trade: 10% of the agent's initial balance
SizeCap(a) ==
    RDiv(RMul(agents[a].initialBalance, R(MaxTradePercentNum)), R(MaxTradePercentDen))

\* C17 as stated: a BUY or SELL above the cap is rejected by validateTrade with
\* the error "exceeds limit", whatever the agent's current balance, and leaves
\* the balance and the positions unchanged.
C17_AlwaysExceedsLimit ==
    [][\A p \in ProcIds :
          (/\ procs[p].pc = "ex_validate"
           /\ procs'[p] # procs[p]
           /\ procs'[p].result # "exception"
           /\ RLt(SizeCap(procs[p].agentId), procs[p].action.size_usd)) =>
              /\ procs'[p].pc = "returned"
              /\ procs'[p].result = "exceeds limit"
              /\ UNCHANGED <<agents, positions, metrics>>]_vars

\* C17, amended: a BUY or SELL above the cap is rejected by validateTrade and
\* leaves the balance and the positions unchanged; the error is "exceeds
\* limit", except for a BUY that also exceeds the agent's current balance,
\* which is rejected with "insufficient balance" by the check made before.
C17_ExceedsLimit ==
    [][\A p \in ProcIds :
          (/\ procs[p].pc = "ex_validate"
           /\ procs'[p] # procs[p]
           /\ procs'[p].result # "exception"
           /\ RLt(SizeCap(procs[p].agentId), procs[p].action.size_usd)) =>
              /\ procs'[p].pc = "returned"
              /\ procs'[p].result =
                    IF /\ procs[p].action.action = "BUY"
                       /\ RLt(agents[procs[p].agentId].currentBalance,
                              procs[p].action.size_usd)
                    THEN "insufficient balance"
                    ELSE "exceeds limit"
              /\ UNCHANGED <<agents, positions, metrics>>]_vars

C17_Witness ==
    \E p \in ProcIds :
        /\ procs[p].pc = "returned"
        /\ procs[p].result = "exceeds limit"
        /\ procs[p].op = "exec"
        /\ agents[1].currentBalance # agents[1].initialBalance

\* the position rows of an (agent, market, side)
Slot(agentId, marketId, side) ==
    {q \in positions : q.agentId = agentId /\ q.marketId = marketId /\ q.side = side}

\* C18: a valid BUY of size_usd at price p into an empty slot ends as an
\* executed trade with shares = size_usd / p, debits exactly size_usd from the
\* balance the agent had, and creates the slot's one position with shares =
\* size_usd / p and entryPrice = p (each value as its decimal column stores it).
C18_BuyIntoEmptySlot ==
    \A p \in ProcIds :
        LET r == procs[p]
            shares == ToDecimal(RDiv(r.action.size_usd, r.price), 6)
        IN  (r.pc = "ex_metrics" /\ r.action.action = "BUY" /\ r.pos = NoPosition) =>
                /\ trades[r.tradeId].status = "executed"
                /\ trades[r.tradeId].shares = shares
                /\ trades[r.tradeId].price = r.price
                /\ agents[r.agentId].currentBalance =
                      ToDecimal(RSub(r.balance, r.action.size_usd), 2)
                /\ \E q \in positions :
                      /\ Slot(r.agentId, r.action.market_id, r.action.side) = {q}
                      /\ q.shares = shares
                      /\ q.entryPrice = r.price

\* the example: balance 500, BUY 50 of YES at 0.40 gives an executed trade of
\* 125 shares, balance 450 and the position {125, 0.40}
C18_Witness ==
    \E p \in ProcIds :
        /\ procs[p].pc = "ex_metrics"
        /\ procs[p].action.action = "BUY" /\ procs[p].action.size_usd = R(50)
        /\ procs[p].pos = NoPosition
        /\ procs[p].balance = R(500) /\ procs[p].price = <<2, 5>>
        /\ trades[procs[p].tradeId].status = "executed"
        /\ trades[procs[p].tradeId].shares = R(125)
        /\ agents[procs[p].agentId].currentBalance = R(450)
        /\ \E q \in positions : q.shares = R(125) /\ q.entryPrice = <<2, 5>>

\* C19: an agent holding a position can SELL all of its shares at the current
\* market price (size_usd = shares * price): unless the store fails,
\* validateTrade lets the SELL through to execution.
C19_SellAllAccepted ==
    [][\A p \in ProcIds :
          LET r == procs[p]
              market == markets[r.action.market_id]
          IN  ( /\ r.pc = "ex_validate" /\ r.op = "exec"
                /\ r.action.action = "SELL"
                /\ \E q \in Slot(r.agentId, r.action.market_id, r.action.side) :
                      RMul(q.shares, CurrentPrice(market, r.action.side)) = r.action.size_usd
                /\ procs'[p] # r
                /\ procs'[p].result # "exception" )
              => procs'[p].pc = "ex_snapshot"]_vars

\* the trades table holds exactly two trades, both executed BUYs of a positive
\* size into the same (agent, market, side)
TwoBuys ==
    /\ Len(trades) = 2
    /\ \A i \in 1..2 :
          /\ trades[i].status = "executed" /\ trades[i].action = "BUY"
          /\ RLt(R(0), trades[i].sizeUsd)
    /\ trades[1].agentId = trades[2].agentId
    /\ trades[1].marketId = trades[2].marketId
    /\ trades[1].side = trades[2].side

\* the position rows of the slot the two trades went into
BoughtSlot == Slot(trades[1].agentId, trades[1].marketId, trades[1].side)

\* the precision of the entryPrice column: 4 fraction digits
EntryPriceTolerance == <<1, 10000>>

Within(x, y, tolerance) ==
    LET d == RSub(x, y) IN RLe(<<Abs(d[1]), d[2]>>, tolerance)

\* (a*p1 + b*p2) / (a + b), the prices weighted by the sizes in USD
UsdWeightedPrice ==
    RDiv(RAdd(RMul(trades[1].sizeUsd, trades[1].price),
              RMul(trades[2].sizeUsd, trades[2].price)),
         RAdd(trades[1].sizeUsd, trades[2].sizeUsd))

\* (a + b) / (a/p1 + b/p2), the USD paid per share held
CostPerShare ==
    RDiv(RAdd(trades[1].sizeUsd, trades[2].sizeUsd),
         RAdd(RDiv(trades[1].sizeUsd, trades[1].price),
              RDiv(trades[2].sizeUsd, trades[2].price)))

\* C20 as stated: after two executed BUYs of sizes a at p1 and b at p2 into
\* the same (agent, market, side), the position's entryPrice equals
\* (a*p1 + b*p2)/(a+b), up to the precision of the column.
C20_UsdWeightedEntryPrice ==
    TwoBuys =>
        \E q \in positions :
            /\ BoughtSlot = {q}
            /\ Within(q.entryPrice, UsdWeightedPrice, EntryPriceTolerance)

\* C20 as the code has it: after the two BUYs the position's entryPrice
\* equals the total cost over the total shares, (a + b)/(a/p1 + b/p2), up to
\* the precision of the column.
C20_CostPerShareEntryPrice ==
    TwoBuys =>
        \E q \in positions :
            /\ BoughtSlot = {q}
            /\ Within(q.entryPrice, CostPerShare, EntryPriceTolerance)

\* two BUYs at different prices have been averaged into one position
C20_Witness ==
    /\ TwoBuys
    /\ trades[1].price # trades[2].price
    /\ trades[1].sizeUsd # trades[2].sizeUsd
    /\ \E q \in positions :
          /\ BoughtSlot = {q}
          /\ q.entryPrice # trades[1].price /\ q.entryPrice # trades[2].price

\* C31: a trade that fails leaves the ledger as it was.  While executeTrade is
\* about to mark its trade failed because simulateTrade returned false, the
\* agent's stored balance is the balance executeTrade read before the trade.
C31_FailedTradeLeavesBalance ==
    \A p \in ProcIds :
        procs[p].pc = "ex_statusf"
            => agents[procs[p].agentId].currentBalance = procs[p].balance

\* C39: an executed SELL never sells more shares than the position holds:
\* when simulateTrade writes the position of a SELL, size_usd / currentPrice
\* is at most the shares of the position it read, at every current price.
C39_SellWithinShares ==
    \A p \in ProcIds :
        LET r == procs[p]
        IN  (r.pc = "ex_pos" /\ r.action.action = "SELL")
                => RLe(RDiv(r.action.size_usd, r.price), r.pos.shares)

-----------------------------------------------------------------------------
(* Properties of one cycle with parsed responses, checked under SpecCycle *)

RECURSIVE FailuresIn(_, _)
FailuresIn(ds, n) ==
    IF n = 0 THEN 0
    ELSE FailuresIn(ds, n - 1) + (IF ds[n].kind \in {"error", "null"} THEN 1 ELSE 0)

\* C28: a provider response that cannot be parsed into an action is a
\* per-agent failure: like a failed provider call, it adds one to the error
\* count of the cycle when the trade loop passes over it.
C28_UnparsableCounted ==
    [][\A p \in ProcIds :
          LET r == procs[p]
              r2 == procs'[p]
              ds == r2.decisions
              to == IF r2.pc = "rc_reval" THEN Len(ds) + 1 ELSE r2.idx
          IN  (r.pc = "rc_decide" /\ r2.pc \in {"rc_reval", "ex_validate"}) =>
                  r2.ec = FailuresIn(ds, to - 1)]_vars

-----------------------------------------------------------------------------
(* Properties of the revaluation, checked under SpecReval *)

\* the identity, share count and entry price of every position row
Holdings(rows) == {[id |-> q.id, shares |-> q.shares, entryPrice |-> q.entryPrice] : q \in rows}

\* a position row carries the values of its market's current price, to the cent
ValuedAtMarket(q) ==
    LET price == CurrentPrice(markets[q.marketId], q.side)
    IN  /\ Within(q.currentValue, RMul(q.shares, price), <<1, 100>>)
        /\ Within(q.unrealizedPnl, RMul(RSub(price, q.entryPrice), q.shares), <<1, 100>>)

\* C32: a cycle goes on to mark its row completed only from the revaluation,
\* which comes after the loop over the decisions; that step leaves every
\* position of a known market with currentValue = shares x currentPrice and
\* unrealizedPnl = (currentPrice - entryPrice) x shares, and leaves the share
\* counts, the entry prices and the agents' balances as they were.
C32_RevaluedBeforeCompleted ==
    [][\A p \in ProcIds :
          (procs'[p].pc = "rc_complete" /\ procs[p].pc # "rc_complete")
              => /\ procs[p].pc = "rc_reval"
                 /\ \A q \in positions' : q.marketId \in DOMAIN markets' => ValuedAtMarket(q)'
                 /\ Holdings(positions') = Holdings(positions)
                 /\ agents' = agents]_vars

-----------------------------------------------------------------------------
(* Properties of the Trade Executor over one day, checked under SpecDay *)

\* C22: for every combination of present and absent venue credentials, a BUY
\* or SELL that passes validation is applied through the simulation path and
\* ends as an executed trade: with a store that does not throw, no trade ends
\* failed and no call returns an execution failure.
C22_AbsentCredentialNeverFails ==
    /\ \A i \in DOMAIN trades : trades[i].status # "failed"
    /\ \A p \in ProcIds : procs[p].result # "execution failed"

\* C23: the performance_metrics row appended after an executed trade has
\* netPnl = (the agent's currentBalance after that trade - initialBalance) +
\* the sum of unrealizedPnl over the agent's positions.
C23_NetPnlAfterTrade ==
    [][metrics' # metrics =>
          LET row == metrics'[Len(metrics')]
              agent == agents'[row.agentId]
              held == {q \in positions' : q.agentId = row.agentId}
          IN  row.netPnl =
                 ToDecimal(RAdd(RSub(agent.currentBalance, agent.initialBalance),
                                SumUnrealizedPnl(held)), 2)]_vars

\* C24: in every performance_metrics row recorded for an agent with at least
\* one executed trade, the win rate lies in [0.3, 0.7].
C24_WinRateBounded ==
    \A i \in DOMAIN metrics :
        metrics[i].totalTrades >= 1 =>
            /\ RLe(<<3, 10>>, metrics[i].winRate)
            /\ RLe(metrics[i].winRate, <<7, 10>>)

\* the total size_usd of the executed trades of an agent
RECURSIVE DailyVolume(_, _)
DailyVolume(rows, agentId) ==
    IF rows = <<>> THEN R(0)
    ELSE LET t == Head(rows)
             rest == DailyVolume(Tail(rows), agentId)
         IN  IF t.agentId = agentId /\ t.status = "executed"
             THEN RAdd(t.sizeUsd, rest) ELSE rest

\* C26: for each agent, the total size_usd of the trades executed within one
\* day never exceeds maxDailyVolumePercent (40%) of the agent's initial balance.
C26_DailyVolumeLimit ==
    \A a \in DOMAIN agents :
        RLe(DailyVolume(trades, a),
            RDiv(RMul(agents[a].initialBalance, R(MaxDailyVolumePercentNum)),
                 R(MaxDailyVolumePercentDen)))

\* C30: a HOLD action passed to the Trade Executor is not executed: it never
\* leaves a trade with status executed.
C30_HoldNotExecuted ==
    \A i \in DOMAIN trades :
        trades[i].action = "HOLD" => trades[i].status # "executed"

-----------------------------------------------------------------------------
(* Properties of the Alert Engine, checked under SpecAlerts *)

\* the critical drawdown alerts among the rows of a table
DrawdownAlerts(rows) ==
    {i \in DOMAIN rows : rows[i].type = "risk_breach" /\ rows[i].severity = "critical"}

\* C34: a performance check on the latest metrics snapshot of an agent whose
\* recorded netPnl is at or below -10% of its initial balance creates exactly
\* one critical drawdown alert; with a smaller drawdown it creates none.
C34_DrawdownAlert ==
    [][\A p \in ProcIds :
          (procs[p].pc = "new" /\ procs'[p].op = "alerts")
              => LET a == procs'[p].agentId
                     row == metrics[Latest(MetricsOf(a))]
                     limit == RDiv(RMul(agents[a].initialBalance, R(-SignificantDrawdown)), R(100))
                     created == Cardinality(DrawdownAlerts(alerts')) - Cardinality(DrawdownAlerts(alerts))
                 IN  created = IF RLe(row.netPnl, limit) THEN 1 ELSE 0]_vars

-----------------------------------------------------------------------------
(* Properties of executeTrade on parsed provider responses, checked under
   SpecProvider *)

\* C37: an agent's balance is never negative, whatever sizes, sides and
\* price limits the providers return.
C37_BalanceNeverNegative ==
    \A a \in DOMAIN agents : RLe(R(0), agents[a].currentBalance)

\* C38: once a trade is marked executed, a BUY has strictly decreased the
\* agent's balance and left a position with strictly positive shares, and a
\* SELL has strictly increased the balance.
C38_ExecutedTradeMovesBalance ==
    \A p \in ProcIds :
        LET r == procs[p]
        IN  r.pc = "ex_metrics" =>
              /\ r.action.action = "BUY" =>
                    /\ RLt(agents[r.agentId].currentBalance, r.balance)
                    /\ \E q \in Slot(r.agentId, r.action.market_id, r.action.side) :
                          RLt(R(0), q.shares)
              /\ r.action.action = "SELL" =>
                    RLt(r.balance, agents[r.agentId].currentBalance)

-----------------------------------------------------------------------------
(* Properties of the Decision Engine, checked under SpecParse *)

\* the decisions getAgentDecision has returned
Returned == {p \in ProcIds : procs[p].op = "decide" /\ procs[p].pc = "returned"}

\* C21: every action the Decision Engine returns has size_usd <= the
\* max-trade cap (maxTradePercent x the agent's initialBalance), whatever size
\* the provider gave, and every HOLD has size_usd = 0.
C21_SizeClamped ==
    \A p \in Returned :
        LET d == procs[p].decisions[1]
        IN  d.kind = "action" =>
                /\ IsNumber(d.size_usd)
                /\ RLe(d.size_usd, SizeCap(procs[p].agentId))
                /\ (d.action = "HOLD" => d.size_usd = R(0))

\* what the specification of the parser rejects: an action tag other than
\* BUY, SELL and HOLD, or a BUY/SELL lacking market_id, side or size_usd
MissingField(content) ==
    \/ content.action \notin {"BUY", "SELL", "HOLD"}
    \/ /\ content.action \in {"BUY", "SELL"}
       /\ \/ content.market_id = "absent"
          \/ content.side = "absent"
          \/ content.size_usd.type = "absent"

\* C29: parsing a well-formed response returns no action exactly when the
\* action tag is not BUY, SELL or HOLD, or the action is BUY/SELL and
\* market_id, side or size_usd is missing; an accepted BUY/SELL carries the
\* provider's max_price, and 1.0 only when the provider gave none.
C29_RejectsExactlyMissing ==
    \A p \in Returned :
        LET d == procs[p].decisions[1]
            content == procs[p].content
        IN  (d.kind # "error" /\ content.json) =>
                /\ d.kind = "null" <=> MissingField(content)
                /\ (d.kind = "action" /\ d.action # "HOLD") =>
                      d.max_price = IF content.max_price.type = "absent"
                                    THEN R(1) ELSE content.max_price.num

-----------------------------------------------------------------------------
(* Properties of the ledger, checked under SpecLedger *)

\* the sum of the sizes of the executed trades of an agent, BUY or SELL
RECURSIVE ExecutedSum(_, _, _)
ExecutedSum(rows, agentId, action) ==
    IF rows = <<>> THEN R(0)
    ELSE LET t == Head(rows)
             rest == ExecutedSum(Tail(rows), agentId, action)
         IN  IF t.agentId = agentId /\ t.action = action /\ t.status = "executed"
             THEN RAdd(t.sizeUsd, rest)
             ELSE rest

\* C10: no update to an agent's balance is lost: whenever no trade is
\* pending, currentBalance is initialBalance minus the executed BUY sizes
\* plus the executed SELL sizes.
C10_NoLostUpdate ==
    (\A t \in DOMAIN trades : trades[t].status # "pending") =>
        \A a \in DOMAIN agents :
            agents[a].currentBalance =
                RAdd(RSub(agents[a].initialBalance, ExecutedSum(trades, a, "BUY")),
                     ExecutedSum(trades, a, "SELL"))

\* C13: there is at most one position row per (agent, market, side).
C13_OnePositionPerSlot ==
    \A q1, q2 \in positions :
        (q1.agentId = q2.agentId /\ q1.marketId = q2.marketId /\ q1.side = q2.side)
            => q1 = q2

-----------------------------------------------------------------------------
(* Properties of the useWebSocket hook, checked under SpecHook *)

\* C40: at most one WebSocket connection of the hook is live (connecting or
\* open) at any time, for every interleaving of connect, reconnect(), socket
\* close events and reconnect timeouts.
C40_OneLiveConnection ==
    Cardinality(Live) <= 1

=============================================================================
